---- MODULE Spec2Model ----
(***************************************************************************)
(* Motion-analysis core of Virtual-AI-Spotter: the debounced repetition    *)
(* counter (RepetitionCounter) and the static hold timer                   *)
(* (StaticDurationCounter) of src/src/core/fsm.py.                         *)
(*                                                                         *)
(* Angles are degrees, modelled as integers; the values drawn include the  *)
(* exact boundaries of every comparison the code makes.  Time is counted   *)
(* in ticks, TicksPerSecond ticks to a second, so that int() of a duration *)
(* is a real truncation.  The feedback rule engine                         *)
(* (src/src/core/feedback.py) and the adaptive filter                      *)
(* (src/src/utils/smoothing.py) follow; the filter's float arithmetic is   *)
(* carried out in fixed point.  The exercise analyzers                     *)
(* (src/src/exercises/squat.py, curl.py, pushup.py, plank.py over          *)
(* src/src/core/interfaces.py) come last: a frame is, per body side, the   *)
(* confidences of the joints read (in hundredths) and the angles the       *)
(* joint coordinates give.  Then the construction of an analyzer from a    *)
(* configuration, the gesture detector (src/src/core/gesture_detector.py)  *)
(* and the session manager (src/src/core/session_manager.py), which runs   *)
(* one analyzer through the sets of a workout.  Two comparisons close the  *)
(* counter and analyzer parts: a reset counter beside a fresh one, and the *)
(* rep analyzers beside a RepetitionCounter fed the same angles.           *)
(***************************************************************************)
EXTENDS Integers, Sequences, FiniteSets, TLC

VARIABLES
    \* ---- RepetitionCounter: configuration set by __init__ ----
    up_threshold, down_threshold, state_prefix, inverted, stability_frames,
    \* ---- RepetitionCounter: mutable state ----
    phase,          \* self._phase
    reps,           \* self.reps
    history,        \* self._history, deque(maxlen=5)
    rcCall,         \* the last call made on the counter and what it returned
    \* ---- plateau driver (scripted input high -> low -> high ...) ----
    drv,
    \* ---- concurrent callers of RepetitionCounter.process ----
    pc, arg, stable, loaded, snap,
    \* ---- StaticDurationCounter ----
    stability_duration, hphase, elapsed_seconds, hold_start, active_start,
    elapsed_raw, countdown_remaining, hcCall,
    \* ---- FeedbackSystem ----
    rules,          \* self.rules, kept sorted by bisect.insort
    added,          \* the rules in the order add_rule accepted them
    fbCall,         \* the last call made on the feedback system
    \* ---- OneEuroFilter ----
    fcfg,           \* min_cutoff, beta, d_cutoff
    x_prev, dx_prev, t_prev,
    filtCall,       \* the last call made on the filter and what it returned
    calls,          \* number of __call__ calls made so far
    stale,          \* the state the last reset() discarded
    \* ---- exercise analyzer (Squat, BicepCurl, PushUp or Plank) ----
    kind,           \* which analyzer class
    side,           \* self.side
    form_threshold_min,
    config,         \* the configuration dict the constructor was given
    built,          \* which class was constructed last, and how that ended
    self_reps,      \* self.reps
    stage,          \* self.stage
    an_history,     \* self.history, deque(maxlen=30)
    smoothers,      \* self.smoothers: joint index -> does the filter hold state
    frames,         \* number of process_frame calls made so far
    anCall,         \* the last call made on the analyzer and what it returned
    \* ---- SessionManager ----
    target_sets, target_reps,
    current_set,    \* self.current_set
    workout_state,  \* self.workout_state
    exercises,      \* self.session_entity.exercises
    end_time,       \* self.session_entity.end_time
    saves,          \* number of db_manager.save_session calls made
    smCall,         \* the last call made on the manager and what it returned
    \* ---- GestureDetector ----
    gstability_frames,  \* self.stability_frames
    gesture_history,    \* self.gesture_history, deque(maxlen=stability_frames)
    gdCall,             \* the last detect()/reset() call and what it returned
    \* ---- a second RepetitionCounter, freshly constructed ----
    twin

cfgVars == <<up_threshold, down_threshold, state_prefix, inverted, stability_frames>>
rcVars == <<phase, reps, history>>
thrVars == <<pc, arg, stable, loaded, snap>>
holdVars == <<stability_duration, hphase, elapsed_seconds, hold_start, active_start,
              elapsed_raw, countdown_remaining, hcCall>>
fbVars == <<rules, added, fbCall>>
filtVars == <<fcfg, x_prev, dx_prev, t_prev, filtCall, calls, stale>>
anCfgVars == <<kind, side, form_threshold_min, config, built>>
anVars == <<anCfgVars, self_reps, stage, an_history, smoothers, frames, anCall>>
smVars == <<target_sets, target_reps, current_set, workout_state, exercises, end_time,
           saves, smCall>>
gdVars == <<gstability_frames, gesture_history, gdCall>>
moreVars == <<smVars, gdVars, twin>>
extVars == <<fbVars, filtVars, anVars, moreVars>>
vars == <<cfgVars, rcVars, rcCall, drv, thrVars, holdVars, extVars>>

----------------------------------------------------------------------------
(* Program constants *)

HYSTERESIS_TOLERANCE == 5
FSM_STABILITY_FRAMES == 2
HistoryMaxLen == 5
STABILITY_DURATION == 3

(* Bounds of the model *)

MaxReps == 2            \* process() is not called once reps reached this
MaxBatches == 2         \* pairs of concurrent process() calls
MaxWarmup == 2          \* free calls before a scripted plateau sequence
MaxCycles == 2          \* low -> high cycles of a scripted sequence
PlateauExtra == 1       \* a plateau has stability_frames .. +PlateauExtra samples
TicksPerSecond == 2     \* resolution of timestamps
MaxTime == 3            \* timestamps are 0 .. MaxTime seconds

----------------------------------------------------------------------------
(* RepPhase *)

START == "start"
UP == "up"
DOWN == "down"
UNKNOWN == "unknown"
RepPhase == {START, UP, DOWN, UNKNOWN}

(* RepetitionCounter._parse_phase: a string that is no RepPhase value is UNKNOWN *)
ParsePhase(state_str) == IF state_str \in RepPhase THEN state_str ELSE UNKNOWN

(* RepetitionCounter._prefixed *)
Prefixed(st) ==
    IF state_prefix # "" /\ st \notin {START, UNKNOWN}
    THEN state_prefix \o "_" \o st
    ELSE st

(* The constructor calls made in the repository: the defaults, Squat (whose   *)
(* start_stage "squat_up" is no RepPhase value), and those of tests/test_fsm. *)
Constructions ==
    { [up |-> 160, down |-> 90,  start_stage |-> "start",    inv |-> FALSE, prefix |-> ""],
      [up |-> 160, down |-> 90,  start_stage |-> "squat_up", inv |-> FALSE, prefix |-> ""],
      [up |-> 160, down |-> 90,  start_stage |-> "up",       inv |-> FALSE, prefix |-> "squat"],
      [up |-> 160, down |-> 90,  start_stage |-> "down",     inv |-> FALSE, prefix |-> ""],
      [up |-> 30,  down |-> 160, start_stage |-> "start",    inv |-> TRUE,  prefix |-> ""],
      [up |-> 30,  down |-> 160, start_stage |-> "down",     inv |-> TRUE,  prefix |-> "curl"] }

(* stability_frames: the default, one below, one above, and one larger than *)
(* the rolling buffer.                                                      *)
StabilityChoices == {FSM_STABILITY_FRAMES - 1, FSM_STABILITY_FRAMES,
                     FSM_STABILITY_FRAMES + 1, HistoryMaxLen + 1}

(* Angles fed to process(): below every threshold, the two band ends      *)
(* (down + tolerance and up - tolerance of the standard thresholds, both  *)
(* strictly inside the band of the inverted ones), and above every        *)
(* threshold.                                                             *)
Angles == {20, 95, 155, 170}

(* no angle: the call takes none (None) *)
NoAngle == 0 - 1

(* deque(maxlen=5).append *)
AppendBounded(h, a) ==
    IF Len(h) < HistoryMaxLen THEN Append(h, a) ELSE Append(Tail(h), a)

(* list(h)[-n:] *)
LastN(h, n) ==
    IF n = 0 \/ n >= Len(h) THEN h ELSE SubSeq(h, Len(h) - n + 1, Len(h))

(* Variant of DownCond: the comparisons not strict *)
DownCondInclusive(a) ==
    IF inverted THEN a >= down_threshold - HYSTERESIS_TOLERANCE
                ELSE a <= down_threshold + HYSTERESIS_TOLERANCE

(* The qualifying condition of DOWN: fsm.py line 91 (standard), 110 (inverted) *)
DownCond(a) ==
    IF inverted THEN a > down_threshold - HYSTERESIS_TOLERANCE
                ELSE a < down_threshold + HYSTERESIS_TOLERANCE

(* The qualifying condition of UP: fsm.py line 96 (standard), 115 (inverted) *)
UpCond(a) ==
    IF inverted THEN a < up_threshold + HYSTERESIS_TOLERANCE
                ELSE a > up_threshold - HYSTERESIS_TOLERANCE

Cond(target, a) == IF target = DOWN THEN DownCond(a) ELSE UpCond(a)

(* Variant of IsStable: no check of the buffer length *)
IsStableNoLength(h, target) ==
    \A i \in 1..Len(LastN(h, stability_frames)) : Cond(target, LastN(h, stability_frames)[i])

(* Variant of IsStable: only the current sample is looked at *)
IsStableLastOnly(h, target) ==
    Len(h) >= stability_frames /\ Cond(target, h[Len(h)])

(* RepetitionCounter._is_stable, for the predicate of `target` *)
IsStable(h, target) ==
    /\ Len(h) >= stability_frames
    /\ \A i \in 1..Len(LastN(h, stability_frames)) :
          Cond(target, LastN(h, stability_frames)[i])

(* Variant of Transition: a rep is counted on entering UP from START too *)
TransitionCountsFromStart(ph, rp, h, a) ==
    IF DownCond(a)
    THEN IF IsStable(h, DOWN) THEN [phase |-> DOWN, reps |-> rp]
                              ELSE [phase |-> ph, reps |-> rp]
    ELSE IF UpCond(a) /\ IsStable(h, UP) /\ ph \in {DOWN, START}
         THEN [phase |-> UP, reps |-> rp + 1]
         ELSE [phase |-> ph, reps |-> rp]

(* Variant of Transition: every stable sample past the up threshold counts *)
(* a rep, whatever the phase                                                *)
TransitionCountsWhileUp(ph, rp, h, a) ==
    IF DownCond(a)
    THEN IF IsStable(h, DOWN) THEN [phase |-> DOWN, reps |-> rp]
                              ELSE [phase |-> ph, reps |-> rp]
    ELSE IF UpCond(a) /\ IsStable(h, UP)
         THEN [phase |-> UP, reps |-> rp + 1]
         ELSE [phase |-> ph, reps |-> rp]

(* The branches of process() after the append (fsm.py lines 85-121): the   *)
(* phase and reps it leaves, given the phase and reps it finds, the buffer *)
(* h (current sample appended) and the sample a.                           *)
Transition(ph, rp, h, a) ==
    IF DownCond(a)
    THEN IF IsStable(h, DOWN) THEN [phase |-> DOWN, reps |-> rp]
                              ELSE [phase |-> ph, reps |-> rp]
    ELSE IF UpCond(a)
         THEN IF IsStable(h, UP)
              THEN IF ph = DOWN THEN [phase |-> UP, reps |-> rp + 1]
                   ELSE IF ph = START THEN [phase |-> UP, reps |-> rp]
                   ELSE [phase |-> ph, reps |-> rp]
              ELSE [phase |-> ph, reps |-> rp]
         ELSE [phase |-> ph, reps |-> rp]

(* process() run by a single caller, start to return *)
ProcessSeq(s, a) ==
    LET h == AppendBounded(s.history, a)
        r == Transition(s.phase, s.reps, h, a)
    IN  [phase |-> r.phase, reps |-> r.reps, history |-> h]

CounterState == [phase |-> phase, reps |-> reps, history |-> history]

(* What a call finds: the phase, reps and buffer length before it *)
Was == [phase |-> phase, reps |-> reps, len |-> Len(history)]
NoWas == [phase |-> START, reps |-> 0, len |-> 0]

----------------------------------------------------------------------------
(* Idle values of the parts a specification does not exercise *)

Threads == {1, 2}
(* no timestamp: Optional[float] = None *)
NoTime == 0 - 1
NoHoldCall == [op |-> "init", is_valid |-> FALSE, timestamp |-> NoTime, ret |-> <<>>,
               was |-> [phase |-> "waiting", hold_start |-> NoTime]]
NoSnap == [phase |-> START, reps |-> 0, history |-> <<>>, n |-> 0]

IdleDriver == drv = [mode |-> "off", count |-> 0, cycles |-> 0, warm |-> 0,
                     reps0 |-> 0, phase0 |-> START]
IdleThreads ==
    /\ pc = [t \in Threads |-> "idle"]
    /\ arg = [t \in Threads |-> NoAngle]
    /\ stable = [t \in Threads |-> FALSE]
    /\ loaded = [t \in Threads |-> 0]
    /\ snap = NoSnap
NoFbCall == [op |-> "init", context |-> {}, ret |-> <<>>, raised |-> FALSE]
IdleFeedback ==
    /\ rules = <<>>
    /\ added = <<>>
    /\ fbCall = NoFbCall
(* Optional[float]: None, or a value *)
None == <<>>
Some(v) == <<v>>
Val(o) == o[1]
NoFilterState == [x_prev |-> None, dx_prev |-> None, t_prev |-> None]
NoFiltCall == [op |-> "init", x |-> 0, t |-> 0, ret |-> None, was |-> NoFilterState]
IdleFilter ==
    /\ fcfg = [min_cutoff |-> 0, beta |-> 0, d_cutoff |-> 0]
    /\ x_prev = None
    /\ dx_prev = None
    /\ t_prev = None
    /\ filtCall = NoFiltCall
    /\ calls = 0
    /\ stale = NoFilterState
NoSideData == [level |-> 0, low |-> 0, angle |-> 0, body_angle |-> 0]
NoFrame == [left |-> NoSideData, right |-> NoSideData]
NoResult == [reps |-> 0, stage |-> "", correction |-> "", angle |-> 0, is_valid |-> FALSE]
NoAnCall == [op |-> "init", frame |-> NoFrame, timestamp |-> NoTime, result |-> NoResult,
             was |-> [reps |-> 0, stage |-> "", len |-> 0, primed |-> FALSE]]
NoConfig == [k \in {} |-> 0]
NotBuilt == [class |-> "none", outcome |-> "none"]
IdleAnalyzer ==
    /\ kind = "none"
    /\ side = "right"
    /\ form_threshold_min = 0
    /\ config = NoConfig
    /\ built = NotBuilt
    /\ self_reps = 0
    /\ stage = "start"
    /\ an_history = <<>>
    /\ smoothers = <<>>
    /\ frames = 0
    /\ anCall = NoAnCall
NoUIState == [reps |-> 0, current_set |-> 0, state |-> "", feedback_key |-> "",
              workout_state |-> ""]
NoSmCall == [op |-> "init", action |-> "", has_people |-> FALSE, analysed |-> FALSE,
             ret |-> NoUIState,
             was |-> [workout_state |-> "", current_set |-> 0, sets |-> 0, saves |-> 0]]
IdleSession ==
    /\ target_sets = 0
    /\ target_reps = 0
    /\ current_set = 0
    /\ workout_state = "none"
    /\ exercises = <<>>
    /\ end_time = None
    /\ saves = 0
    /\ smCall = NoSmCall
NoArm == [wrist_conf |-> 0, shoulder_conf |-> 0, y_diff |-> 0]
NoKeypoints == [given |-> FALSE, right |-> NoArm, left |-> NoArm]
NoGdCall == [op |-> "init", keypoints |-> NoKeypoints, detected |-> "None",
             ret |-> "None"]
IdleGesture ==
    /\ gstability_frames = 0
    /\ gesture_history = <<>>
    /\ gdCall = NoGdCall
NoTwin == [phase |-> START, reps |-> 0, history |-> <<>>, start |-> START,
           live |-> FALSE, ret |-> <<>>]
IdleTwin == twin = NoTwin
IdleMore ==
    /\ IdleSession
    /\ IdleGesture
    /\ IdleTwin
IdleExt ==
    /\ IdleFeedback
    /\ IdleFilter
    /\ IdleAnalyzer
    /\ IdleMore
IdleHold ==
    /\ stability_duration = 0
    /\ hphase = "waiting"
    /\ elapsed_seconds = 0
    /\ hold_start = NoTime
    /\ active_start = NoTime
    /\ elapsed_raw = 0
    /\ countdown_remaining = 0
    /\ hcCall = NoHoldCall

----------------------------------------------------------------------------
(* RepetitionCounter, one caller *)

(* RepetitionCounter.__init__ *)
Construct(c, sf) ==
    /\ up_threshold = c.up
    /\ down_threshold = c.down
    /\ state_prefix = c.prefix
    /\ inverted = c.inv
    /\ stability_frames = sf
    /\ phase = ParsePhase(c.start_stage)
    /\ reps = 0
    /\ history = <<>>
    /\ rcCall = [op |-> "init", angle |-> NoAngle, ret |-> <<>>, was |-> NoWas]

(* RepetitionCounter.process(angle): what the call does to the counter *)
ProcessCall(a) ==
    LET s == ProcessSeq(CounterState, a)
    IN  /\ history' = s.history
        /\ phase' = s.phase
        /\ reps' = s.reps
        /\ rcCall' = [op |-> "process", angle |-> a,
                      ret |-> <<s.reps, Prefixed(s.phase)>>, was |-> Was]

(* RepetitionCounter.process(angle), any angle at any time *)
Process(a) ==
    /\ reps < MaxReps
    /\ ProcessCall(a)
    /\ UNCHANGED <<cfgVars, drv, thrVars, holdVars, extVars>>

(* Variant of Reset: the rolling buffer is kept *)
ResetClearsNoBuffer ==
    /\ reps' = 0
    /\ phase' = START
    /\ history' = history
    /\ rcCall' = [op |-> "reset", angle |-> NoAngle, ret |-> <<>>, was |-> Was]
    /\ UNCHANGED <<cfgVars, drv, thrVars, holdVars, extVars>>

(* RepetitionCounter.reset() *)
Reset ==
    /\ reps' = 0
    /\ phase' = START
    /\ history' = <<>>
    /\ rcCall' = [op |-> "reset", angle |-> NoAngle, ret |-> <<>>, was |-> Was]
    /\ UNCHANGED <<cfgVars, drv, thrVars, holdVars, extVars>>

InitRep ==
    /\ \E c \in Constructions, sf \in StabilityChoices : Construct(c, sf)
    /\ IdleDriver
    /\ IdleThreads
    /\ IdleHold
    /\ IdleExt

NextRep ==
    \/ \E a \in Angles : Process(a)
    \/ Reset

SpecRep == InitRep /\ [][NextRep]_vars

----------------------------------------------------------------------------
(* Properties of RepetitionCounter with one caller (SpecRep) *)

Window(h) == { i \in 1..Len(h) : i > Len(h) - stability_frames }

(* C1: in standard mode a process() call changes reps only by +1, and only  *)
(* when the phase before the call is DOWN, the phase after it is UP and the *)
(* last stability_frames buffered samples, the current one included, are    *)
(* all above up_threshold - hysteresis; entering UP from START leaves reps  *)
(* unchanged.                                                               *)
C1_RepOnlyOnStableDownToUp ==
    [][ (rcCall'.op = "process" /\ ~inverted) =>
          /\ reps' \in {reps, reps + 1}
          /\ (reps' = reps + 1 =>
                /\ phase = DOWN
                /\ phase' = UP
                /\ Len(history') >= stability_frames
                /\ \A i \in Window(history') :
                      history'[i] > up_threshold - HYSTERESIS_TOLERANCE)
          /\ (phase = START /\ phase' = UP => reps' = reps) ]_vars

(* A standard counter that has just counted its first rep on a DOWN -> UP   *)
(* transition, the sample before the window not qualifying.                 *)
C1_Witness ==
    /\ ~inverted
    /\ rcCall.op = "process"
    /\ rcCall.was.phase = DOWN
    /\ phase = UP
    /\ reps = rcCall.was.reps + 1
    /\ Len(history) > stability_frames
    /\ history[Len(history) - stability_frames] <= up_threshold - HYSTERESIS_TOLERANCE

(* C2: in both modes every phase change made by process() happens only if   *)
(* the qualifying condition of the target phase holds for each of the last  *)
(* stability_frames samples of the rolling buffer; with fewer than          *)
(* stability_frames samples buffered no transition is committed.            *)
C2_ChangeOnlyWhenStable ==
    [][ (rcCall'.op = "process" /\ phase' # phase) =>
          /\ phase' \in {UP, DOWN}
          /\ Len(history') >= stability_frames
          /\ \A i \in Window(history') :
                IF inverted
                THEN IF phase' = DOWN
                     THEN history'[i] > down_threshold - HYSTERESIS_TOLERANCE
                     ELSE history'[i] < up_threshold + HYSTERESIS_TOLERANCE
                ELSE IF phase' = DOWN
                     THEN history'[i] < down_threshold + HYSTERESIS_TOLERANCE
                     ELSE history'[i] > up_threshold - HYSTERESIS_TOLERANCE ]_vars

(* An inverted counter that has just committed UP -> DOWN with a window of  *)
(* exactly stability_frames qualifying samples.                             *)
C2_Witness ==
    /\ inverted
    /\ rcCall.op = "process"
    /\ rcCall.was.phase = UP
    /\ phase = DOWN
    /\ stability_frames >= 2
    /\ Len(history) > stability_frames
    /\ history[Len(history) - stability_frames] <= down_threshold - HYSTERESIS_TOLERANCE

(* Sample i of buffer h is a spike: it satisfies the qualifying condition   *)
(* of a phase that the sample before it does not satisfy, nor the sample    *)
(* after it (when that one has arrived).                                    *)
IsSpike(h, i) ==
    /\ i > 1
    /\ i <= Len(h)
    /\ \E target \in {DOWN, UP} :
          /\ Cond(target, h[i])
          /\ ~Cond(target, h[i - 1])
          /\ (i < Len(h) => ~Cond(target, h[i + 1]))

(* C4: with stability_frames >= 2, a single sample that satisfies a phase's *)
(* condition, arriving between samples that do not satisfy it, changes      *)
(* neither the phase nor reps, in the spike frame or in the frames after it *)
(* whose window still holds the spike.                                      *)
C4_SpikeChangesNothing ==
    [][ ( /\ rcCall'.op = "process"
          /\ stability_frames >= 2
          /\ \E i \in Window(history') : IsSpike(history', i) )
        => (phase' = phase /\ reps' = reps) ]_vars

(* The frame after a one-frame spike of 20 amid 170 in a standard counter   *)
(* that is UP: the opposite phase's condition was met for one frame only.   *)
C4_Witness ==
    /\ ~inverted
    /\ stability_frames >= 2
    /\ rcCall.op = "process"
    /\ phase = UP
    /\ rcCall.was.phase = UP
    /\ Len(history) >= 3
    /\ history[Len(history)] = 170
    /\ history[Len(history) - 1] = 20
    /\ history[Len(history) - 2] = 170

(* C6: in standard mode a sample in the band                                *)
(* down_threshold + hysteresis <= angle <= up_threshold - hysteresis leaves *)
(* phase and reps unchanged; the only effect of the call is that the sample *)
(* is appended to the rolling buffer (the oldest of 5 dropped).             *)
C6_BandSampleOnlyAppends ==
    [][ ( /\ rcCall'.op = "process"
          /\ ~inverted
          /\ rcCall'.angle >= down_threshold + HYSTERESIS_TOLERANCE
          /\ rcCall'.angle <= up_threshold - HYSTERESIS_TOLERANCE )
        => /\ phase' = phase
           /\ reps' = reps
           /\ history' = (IF Len(history) < HistoryMaxLen THEN history ELSE Tail(history))
                            \o <<rcCall'.angle>>
           /\ UNCHANGED cfgVars ]_vars

(* A standard counter in UP that received a sample on the lower band end    *)
(* right after a single sample below it, and stayed UP.                     *)
C6_Witness ==
    /\ ~inverted
    /\ rcCall.op = "process"
    /\ rcCall.angle = down_threshold + HYSTERESIS_TOLERANCE
    /\ phase = UP
    /\ Len(history) >= 2
    /\ history[Len(history) - 1] < down_threshold + HYSTERESIS_TOLERANCE

(* C8: reset(), called in any reachable state, leaves reps = 0, phase =     *)
(* START and an empty rolling buffer, and leaves the thresholds, the        *)
(* inverted flag, the prefix and stability_frames unchanged.                *)
C8_ResetClearsState ==
    [][ rcCall'.op = "reset" =>
          /\ reps' = 0
          /\ phase' = START
          /\ history' = <<>>
          /\ UNCHANGED cfgVars ]_vars

(* reset() called on a counter that had counted reps, was UP and had a full *)
(* buffer.                                                                  *)
C8_Witness ==
    /\ rcCall.op = "reset"
    /\ rcCall.was.reps = MaxReps
    /\ rcCall.was.phase = UP
    /\ rcCall.was.len = HistoryMaxLen
    /\ reps = 0
    /\ history = <<>>

(* C36: between resets, reps never decreases and grows by at most 1 per     *)
(* process() call, in both modes and from any start phase; a rep is counted *)
(* only by a call that finds the phase DOWN and leaves it UP, so after a    *)
(* rep no further rep is counted until the counter has been in DOWN again.  *)
C36_RepsStepByOne ==
    [][ rcCall'.op = "process" =>
          /\ reps' >= reps
          /\ reps' <= reps + 1
          /\ (reps' = reps + 1 => (phase = DOWN /\ phase' = UP))
          /\ (phase # DOWN => reps' = reps) ]_vars

(* An inverted counter has counted its second rep, having gone through DOWN *)
(* again after the first.                                                   *)
C36_Witness ==
    /\ inverted
    /\ rcCall.op = "process"
    /\ rcCall.was.phase = DOWN
    /\ rcCall.was.reps = 1
    /\ phase = UP
    /\ reps = 2

(* A counter that was used and reset, beside a freshly constructed one with *)
(* the same configuration (SpecTwin): after the reset both are fed the same *)
(* angles.  twin is the fresh instance: its phase, reps and buffer, the     *)
(* phase it was constructed in, and what its last process() returned.       *)

TwinState == [phase |-> twin.phase, reps |-> twin.reps, history |-> twin.history]

(* process(angle) on the instance that is going to be reset *)
TwinWarm(a) ==
    /\ ~twin.live
    /\ Len(history) < MaxWarmup
    /\ ProcessCall(a)
    /\ UNCHANGED <<cfgVars, drv, thrVars, holdVars, extVars>>

(* RepetitionCounter.reset() on the used instance *)
TwinReset ==
    /\ ~twin.live
    /\ reps' = 0
    /\ phase' = START
    /\ history' = <<>>
    /\ rcCall' = [op |-> "reset", angle |-> NoAngle, ret |-> <<>>, was |-> Was]
    /\ twin' = [twin EXCEPT !.live = TRUE]
    /\ UNCHANGED <<cfgVars, drv, thrVars, holdVars, fbVars, filtVars, anVars, smVars,
                   gdVars>>

(* process(angle) on both instances *)
TwinProcess(a) ==
    /\ twin.live
    /\ reps < MaxReps
    /\ twin.reps < MaxReps
    /\ ProcessCall(a)
    /\ \E t \in {ProcessSeq(TwinState, a)} :
          twin' = [twin EXCEPT !.phase = t.phase, !.reps = t.reps,
                               !.history = t.history,
                               !.ret = <<t.reps, Prefixed(t.phase)>>]
    /\ UNCHANGED <<cfgVars, drv, thrVars, holdVars, fbVars, filtVars, anVars, smVars,
                   gdVars>>

InitTwin ==
    /\ \E c \in Constructions, sf \in StabilityChoices :
          /\ Construct(c, sf)
          /\ twin = [phase |-> ParsePhase(c.start_stage), reps |-> 0,
                     history |-> <<>>, start |-> ParsePhase(c.start_stage),
                     live |-> FALSE, ret |-> <<>>]
    /\ IdleDriver
    /\ IdleThreads
    /\ IdleHold
    /\ IdleFeedback
    /\ IdleFilter
    /\ IdleAnalyzer
    /\ IdleSession
    /\ IdleGesture

NextTwin ==
    \/ \E a \in Angles : TwinWarm(a)
    \/ TwinReset
    \/ \E a \in Angles : TwinProcess(a)

SpecTwin == InitTwin /\ [][NextTwin]_vars

(* C35: after reset() a RepetitionCounter (and so an analyzer built on it,  *)
(* such as Squat) answers every later input sequence with the same          *)
(* (reps, stage) outputs as a freshly constructed instance with the same    *)
(* configuration, whatever start_stage it was constructed with.             *)
C35_ResetEqualsFresh ==
    (twin.live /\ rcCall.op = "process") => rcCall.ret = twin.ret

(* What does hold: the outputs agree when the counter was constructed in    *)
(* START, the phase reset() always sets.                                    *)
C35_ResetEqualsFreshFromStart ==
    (twin.live /\ rcCall.op = "process" /\ twin.start = START) =>
        /\ rcCall.ret = twin.ret
        /\ CounterState = TwinState

(* Squat's counter (start_stage "squat_up", parsed to UNKNOWN): after a     *)
(* reset it reports "up" on stable standing frames where a fresh one        *)
(* reports "unknown".                                                       *)
C35_SquatStageDiffers ==
    /\ twin.live
    /\ twin.start = UNKNOWN
    /\ rcCall.op = "process"
    /\ rcCall.ret = <<0, UP>>
    /\ twin.ret = <<0, UNKNOWN>>

(* A counter constructed in DOWN: after a reset it has counted one rep      *)
(* fewer than a fresh one fed the same angles.                              *)
C35_RepsDiffer ==
    /\ twin.live
    /\ twin.start = DOWN
    /\ rcCall.op = "process"
    /\ rcCall.ret[1] + 1 = twin.ret[1]

----------------------------------------------------------------------------
(* RepetitionCounter fed a scripted sequence of plateaus (SpecPlateau), as  *)
(* tests/test_fsm.py feeds it: after at most MaxWarmup free calls, a high   *)
(* plateau, then up to MaxCycles times a low plateau and a high plateau.    *)
(* Every plateau has stability_frames .. stability_frames + PlateauExtra    *)
(* samples of one value.                                                    *)

PlateauHigh == 170
PlateauLowStandard == 80
PlateauLowInverted == 20
PlateauLow == IF inverted THEN PlateauLowInverted ELSE PlateauLowStandard
PlateauValue(mode) == IF mode = "high" THEN PlateauHigh ELSE PlateauLow

(* a free call before the script starts *)
Warmup(a) ==
    /\ drv.mode = "warmup"
    /\ drv.warm < MaxWarmup
    /\ ProcessCall(a)
    /\ drv' = [drv EXCEPT !.warm = @ + 1]
    /\ UNCHANGED <<cfgVars, thrVars, holdVars, extVars>>

(* the first sample of the first high plateau; reps and phase found are kept *)
BeginScript ==
    /\ drv.mode = "warmup"
    /\ ProcessCall(PlateauHigh)
    /\ drv' = [drv EXCEPT !.mode = "high", !.count = 1, !.cycles = 0,
                          !.reps0 = reps, !.phase0 = phase]
    /\ UNCHANGED <<cfgVars, thrVars, holdVars, extVars>>

(* one more sample of the current plateau *)
FeedPlateau ==
    /\ drv.mode \in {"high", "low"}
    /\ drv.count < stability_frames + PlateauExtra
    /\ ProcessCall(PlateauValue(drv.mode))
    /\ drv' = [drv EXCEPT !.count = @ + 1]
    /\ UNCHANGED <<cfgVars, thrVars, holdVars, extVars>>

(* the first sample of the next plateau, once this one has stability_frames *)
NextPlateau ==
    /\ drv.mode \in {"high", "low"}
    /\ drv.count >= stability_frames
    /\ IF drv.mode = "high"
       THEN /\ drv.cycles < MaxCycles
            /\ ProcessCall(PlateauLow)
            /\ drv' = [drv EXCEPT !.mode = "low", !.count = 1]
       ELSE /\ ProcessCall(PlateauHigh)
            /\ drv' = [drv EXCEPT !.mode = "high", !.count = 1, !.cycles = @ + 1]
    /\ UNCHANGED <<cfgVars, thrVars, holdVars, extVars>>

InitPlateau ==
    /\ \E c \in Constructions, sf \in StabilityChoices : Construct(c, sf)
    /\ drv = [mode |-> "warmup", count |-> 0, cycles |-> 0, warm |-> 0,
              reps0 |-> 0, phase0 |-> START]
    /\ IdleThreads
    /\ IdleHold
    /\ IdleExt

NextPlateauSpec ==
    \/ \E a \in Angles : Warmup(a)
    \/ BeginScript
    \/ FeedPlateau
    \/ NextPlateau

SpecPlateau == InitPlateau /\ [][NextPlateauSpec]_vars

(* The counter of C3: standard mode, up 160, down 90, stability_frames 2 *)
C3_Counter ==
    /\ ~inverted
    /\ up_threshold = 160
    /\ down_threshold = 90
    /\ stability_frames = FSM_STABILITY_FRAMES

(* k cycles have been fed in full: the high plateau closing cycle k has at  *)
(* least stability_frames samples.                                          *)
CyclesFed(k) ==
    drv.mode = "high" /\ drv.cycles = k /\ drv.count >= stability_frames

(* C3 as stated: a standard counter (up 160, down 90, stability_frames 2)   *)
(* fed k >= 1 cycles high(170) -> low(80) -> high(170), every plateau of at *)
(* least stability_frames samples, has reps increased by exactly k and is   *)
(* UP.                                                                      *)
C3_AsStated ==
    \A k \in 1..(MaxCycles + 1) :
        (C3_Counter /\ CyclesFed(k)) => (reps = drv.reps0 + k /\ phase = UP)

(* C3 amended: the same, for a counter whose phase is not DOWN when the     *)
(* first high plateau begins (from DOWN the first high plateau itself       *)
(* counts a rep, giving k + 1).                                             *)
C3_CyclesCountedFromNotDown ==
    \A k \in 1..(MaxCycles + 1) :
        (C3_Counter /\ CyclesFed(k) /\ drv.phase0 # DOWN)
            => (reps = drv.reps0 + k /\ phase = UP)

(* Two full cycles fed to a counter that was not DOWN: two reps counted.    *)
C3_Witness ==
    /\ C3_Counter
    /\ CyclesFed(2)
    /\ drv.phase0 = UNKNOWN
    /\ reps = drv.reps0 + 2
    /\ phase = UP

(* C5: an inverted counter (up 30, down 160) fed plateaus 170 -> 20 -> 170  *)
(* of at least stability_frames samples each goes DOWN -> UP -> DOWN,       *)
(* counts exactly one rep at the DOWN -> UP step (when the low plateau has  *)
(* stability_frames samples) and counts nothing on returning to DOWN.       *)
C5_InvertedPlateaus ==
    (inverted /\ drv.mode \in {"high", "low"}) =>
        /\ (drv.mode = "high" /\ drv.count >= stability_frames) =>
                (phase = DOWN /\ reps = drv.reps0 + drv.cycles)
        /\ (drv.mode = "high" /\ drv.count < stability_frames) =>
                reps = drv.reps0 + drv.cycles
        /\ (drv.mode = "low" /\ drv.count >= stability_frames) =>
                (phase = UP /\ reps = drv.reps0 + drv.cycles + 1)
        /\ (drv.mode = "low" /\ drv.count < stability_frames) =>
                (phase = DOWN /\ reps = drv.reps0 + drv.cycles)

(* The same with stability_frames within the rolling buffer's 5 samples.    *)
C5_WithinBuffer == (stability_frames <= HistoryMaxLen) => C5_InvertedPlateaus

(* the phase whose qualifying condition the samples of a plateau satisfy *)
PlateauPhase(mode) == IF DownCond(PlateauValue(mode)) THEN DOWN ELSE UP

(* the reps counted by DOWN -> UP steps once the current plateau has        *)
(* committed                                                                *)
PlateauRepsDue ==
    IF PlateauPhase(drv.mode) = UP /\ (inverted \/ drv.cycles >= 1)
    THEN (IF inverted THEN drv.cycles + 1 ELSE drv.cycles)
    ELSE 0

(* C30: for every configured stability_frames >= 1, once the qualifying     *)
(* condition of a phase has held for stability_frames consecutive process() *)
(* calls the transition commits: the counter is in that phase after the     *)
(* last of those calls, and the rep is counted when the step is DOWN -> UP. *)
(* (A first UP plateau met in the UNKNOWN phase is left out: UP is entered  *)
(* from START and DOWN only.)                                               *)
C30_CommitsAfterStabilityFrames ==
    (/\ drv.mode \in {"high", "low"}
     /\ stability_frames >= 1
     /\ drv.count >= stability_frames
     /\ ~(PlateauPhase(drv.mode) = UP /\ drv.cycles = 0 /\ ~inverted
            /\ drv.phase0 = UNKNOWN))
    => /\ phase = PlateauPhase(drv.mode)
       /\ reps >= drv.reps0 + PlateauRepsDue

(* The same with stability_frames within the rolling buffer's 5 samples.    *)
C30_WithinBuffer ==
    (stability_frames <= HistoryMaxLen) => C30_CommitsAfterStabilityFrames

----------------------------------------------------------------------------
(* RepetitionCounter.process called by two threads at once (SpecConc).      *)
(* The lock is held for the append (lines 82-83) and inside _is_stable      *)
(* (lines 127-130) only, so each of those is one atomic step; every read or *)
(* write of self._phase and self.reps outside the lock is a step of its     *)
(* own, and self.reps += 1 is a load followed by a store.  The branch       *)
(* conditions on the angle read only the call's argument and the immutable  *)
(* configuration and are folded into the step before them; the final        *)
(* return only reads.                                                       *)
(* Calls come in pairs: both threads enter process() on a quiescent         *)
(* counter, whose state is kept in snap, and run to completion.             *)

AllAt(p) == \A t \in Threads : pc[t] = p

BeginBatch(a1, a2) ==
    /\ AllAt("idle")
    /\ snap.n < MaxBatches
    /\ reps < MaxReps
    /\ snap' = [phase |-> phase, reps |-> reps, history |-> history, n |-> snap.n + 1]
    /\ arg' = [t \in Threads |-> IF t = 1 THEN a1 ELSE a2]
    /\ pc' = [t \in Threads |-> "append"]
    /\ UNCHANGED <<cfgVars, rcVars, rcCall, drv, stable, loaded, holdVars, extVars>>

(* lines 82-83, then the branch on the angle (lines 85, 91, 96, 110, 115) *)
LockedAppend(t) ==
    /\ pc[t] = "append"
    /\ history' = AppendBounded(history, arg[t])
    /\ pc' = [pc EXCEPT ![t] = IF DownCond(arg[t]) THEN "stable_down"
                               ELSE IF UpCond(arg[t]) THEN "stable_up"
                               ELSE "done"]
    /\ UNCHANGED <<cfgVars, phase, reps, rcCall, drv, arg, stable, loaded, snap, holdVars, extVars>>

(* lines 92 / 111: _is_stable under the lock *)
StableDown(t) ==
    /\ pc[t] = "stable_down"
    /\ stable' = [stable EXCEPT ![t] = IsStable(history, DOWN)]
    /\ pc' = [pc EXCEPT ![t] = IF IsStable(history, DOWN) THEN "set_down" ELSE "done"]
    /\ UNCHANGED <<cfgVars, rcVars, rcCall, drv, arg, loaded, snap, holdVars, extVars>>

(* lines 93 / 112: self._phase = RepPhase.DOWN *)
SetDown(t) ==
    /\ pc[t] = "set_down"
    /\ phase' = DOWN
    /\ pc' = [pc EXCEPT ![t] = "done"]
    /\ UNCHANGED <<cfgVars, reps, history, rcCall, drv, arg, stable, loaded, snap, holdVars, extVars>>

(* lines 97 / 116: _is_stable under the lock *)
StableUp(t) ==
    /\ pc[t] = "stable_up"
    /\ stable' = [stable EXCEPT ![t] = IsStable(history, UP)]
    /\ pc' = [pc EXCEPT ![t] = IF IsStable(history, UP) THEN "check_down" ELSE "done"]
    /\ UNCHANGED <<cfgVars, rcVars, rcCall, drv, arg, loaded, snap, holdVars, extVars>>

(* lines 98 / 117: if self._phase == RepPhase.DOWN *)
CheckDown(t) ==
    /\ pc[t] = "check_down"
    /\ pc' = [pc EXCEPT ![t] = IF phase = DOWN THEN "load_reps" ELSE "check_start"]
    /\ UNCHANGED <<cfgVars, rcVars, rcCall, drv, arg, stable, loaded, snap, holdVars, extVars>>

(* lines 101 / 120: elif self._phase == RepPhase.START *)
CheckStart(t) ==
    /\ pc[t] = "check_start"
    /\ pc' = [pc EXCEPT ![t] = IF phase = START THEN "set_up" ELSE "done"]
    /\ UNCHANGED <<cfgVars, rcVars, rcCall, drv, arg, stable, loaded, snap, holdVars, extVars>>

(* lines 99 / 118: self.reps += 1, the load *)
LoadReps(t) ==
    /\ pc[t] = "load_reps"
    /\ loaded' = [loaded EXCEPT ![t] = reps]
    /\ pc' = [pc EXCEPT ![t] = "store_reps"]
    /\ UNCHANGED <<cfgVars, rcVars, rcCall, drv, arg, stable, snap, holdVars, extVars>>

(* lines 99 / 118: self.reps += 1, the store *)
StoreReps(t) ==
    /\ pc[t] = "store_reps"
    /\ reps' = loaded[t] + 1
    /\ pc' = [pc EXCEPT ![t] = "set_up"]
    /\ UNCHANGED <<cfgVars, phase, history, rcCall, drv, arg, stable, loaded, snap, holdVars, extVars>>

(* lines 100, 102 / 119, 121: self._phase = RepPhase.UP *)
SetUp(t) ==
    /\ pc[t] = "set_up"
    /\ phase' = UP
    /\ pc' = [pc EXCEPT ![t] = "done"]
    /\ UNCHANGED <<cfgVars, reps, history, rcCall, drv, arg, stable, loaded, snap, holdVars, extVars>>

(* both calls have returned *)
EndBatch ==
    /\ AllAt("done")
    /\ pc' = [t \in Threads |-> "idle"]
    /\ stable' = [t \in Threads |-> FALSE]
    /\ loaded' = [t \in Threads |-> 0]
    /\ UNCHANGED <<cfgVars, rcVars, rcCall, drv, arg, snap, holdVars, extVars>>

InitConc ==
    /\ \E c \in Constructions, sf \in StabilityChoices : Construct(c, sf)
    /\ IdleDriver
    /\ IdleThreads
    /\ IdleHold
    /\ IdleExt

NextConc ==
    \/ \E a1, a2 \in Angles : BeginBatch(a1, a2)
    \/ \E t \in Threads :
          \/ LockedAppend(t)
          \/ StableDown(t)
          \/ SetDown(t)
          \/ StableUp(t)
          \/ CheckDown(t)
          \/ CheckStart(t)
          \/ LoadReps(t)
          \/ StoreReps(t)
          \/ SetUp(t)
    \/ EndBatch

SpecConc == InitConc /\ [][NextConc]_vars

(* The counter states two sequential process() calls can leave, in either   *)
(* order, started on the counter state the pair found.                      *)
SerialOutcomes ==
    LET s0 == [phase |-> snap.phase, reps |-> snap.reps, history |-> snap.history]
    IN  { ProcessSeq(ProcessSeq(s0, arg[1]), arg[2]),
          ProcessSeq(ProcessSeq(s0, arg[2]), arg[1]) }

(* C7: concurrent process() calls on one RepetitionCounter are serialized:  *)
(* for every interleaving, the resulting reps, phase and buffer equal those *)
(* of some sequential order of the same calls.                              *)
C7_Serializable == AllAt("done") => CounterState \in SerialOutcomes

(* The part of C7 named in it: two concurrent calls never count the same    *)
(* DOWN -> UP transition twice.                                             *)
C7_NoDoubleCount == AllAt("done") => reps <= snap.reps + 1

----------------------------------------------------------------------------
(* StaticDurationCounter (SpecHold).  Timestamps and durations are in ticks *)
(* of 1/TicksPerSecond second; process() is given any timestamp of          *)
(* 0 .. MaxTime seconds, in any order.                                      *)

WAITING == "waiting"
COUNTDOWN == "countdown"
ACTIVE == "active"
FINISHED == "finished"
HoldPhase == {WAITING, COUNTDOWN, ACTIVE, FINISHED}

Times == 0..(MaxTime * TicksPerSecond)

(* stability_duration: none, one and a half seconds, and the default *)
StabilityDurations == {0, TicksPerSecond + TicksPerSecond \div 2,
                       STABILITY_DURATION * TicksPerSecond}

(* Variant of IntSeconds: rounds to the nearest second instead of          *)
(* truncating.                                                             *)
IntSecondsRounded(d) ==
    IF d >= 0 THEN (d + TicksPerSecond \div 2) \div TicksPerSecond
    ELSE -(((-d) + TicksPerSecond \div 2) \div TicksPerSecond)

(* int() of a duration in seconds: truncation toward zero *)
IntSeconds(d) == IF d >= 0 THEN d \div TicksPerSecond ELSE -((-d) \div TicksPerSecond)

HoldState == [phase |-> hphase, hold_start |-> hold_start, active_start |-> active_start,
              elapsed_raw |-> elapsed_raw, countdown_remaining |-> countdown_remaining]

(* Variant of HoldTransition: the countdown ends only after more than      *)
(* stability_duration.                                                     *)
HoldTransitionStrict(s, is_valid, timestamp) ==
    IF s.phase = WAITING
    THEN IF is_valid
         THEN [s EXCEPT !.phase = COUNTDOWN, !.hold_start = timestamp]
         ELSE s
    ELSE IF s.phase = COUNTDOWN
    THEN IF is_valid
         THEN IF timestamp - s.hold_start > stability_duration
              THEN [s EXCEPT !.phase = ACTIVE, !.active_start = timestamp,
                             !.elapsed_raw = 0]
              ELSE [s EXCEPT !.countdown_remaining =
                        IntSeconds(stability_duration - (timestamp - s.hold_start)) + 1]
         ELSE [s EXCEPT !.phase = WAITING, !.hold_start = NoTime,
                        !.countdown_remaining = 0]
    ELSE IF s.phase = ACTIVE
    THEN IF is_valid
         THEN [s EXCEPT !.elapsed_raw = timestamp - s.active_start]
         ELSE [s EXCEPT !.phase = FINISHED]
    ELSE s

(* Variant of HoldTransition: a broken countdown keeps its start, and the  *)
(* next countdown resumes from it.                                         *)
HoldTransitionCarriesOver(s, is_valid, timestamp) ==
    IF s.phase = WAITING
    THEN IF is_valid
         THEN [s EXCEPT !.phase = COUNTDOWN,
                        !.hold_start = IF s.hold_start = NoTime THEN timestamp
                                       ELSE s.hold_start]
         ELSE s
    ELSE IF s.phase = COUNTDOWN
    THEN IF is_valid
         THEN IF timestamp - s.hold_start >= stability_duration
              THEN [s EXCEPT !.phase = ACTIVE, !.active_start = timestamp,
                             !.elapsed_raw = 0]
              ELSE [s EXCEPT !.countdown_remaining =
                        IntSeconds(stability_duration - (timestamp - s.hold_start)) + 1]
         ELSE [s EXCEPT !.phase = WAITING]
    ELSE IF s.phase = ACTIVE
    THEN IF is_valid
         THEN [s EXCEPT !.elapsed_raw = timestamp - s.active_start]
         ELSE [s EXCEPT !.phase = FINISHED]
    ELSE s

(* Variant of HoldTransition: the call that breaks the hold still advances *)
(* the elapsed time to its own timestamp.                                  *)
HoldTransitionBreakTimed(s, is_valid, timestamp) ==
    IF s.phase = WAITING
    THEN IF is_valid
         THEN [s EXCEPT !.phase = COUNTDOWN, !.hold_start = timestamp]
         ELSE s
    ELSE IF s.phase = COUNTDOWN
    THEN IF is_valid
         THEN IF timestamp - s.hold_start >= stability_duration
              THEN [s EXCEPT !.phase = ACTIVE, !.active_start = timestamp,
                             !.elapsed_raw = 0]
              ELSE [s EXCEPT !.countdown_remaining =
                        IntSeconds(stability_duration - (timestamp - s.hold_start)) + 1]
         ELSE [s EXCEPT !.phase = WAITING, !.hold_start = NoTime,
                        !.countdown_remaining = 0]
    ELSE IF s.phase = ACTIVE
    THEN IF is_valid
         THEN [s EXCEPT !.elapsed_raw = timestamp - s.active_start]
         ELSE [s EXCEPT !.phase = FINISHED,
                        !.elapsed_raw = timestamp - s.active_start]
    ELSE s

(* Variant of HoldTransition: a finished timer starts a new countdown on   *)
(* the next valid call.                                                    *)
HoldTransitionFinishedRestarts(s, is_valid, timestamp) ==
    IF s.phase = WAITING
    THEN IF is_valid
         THEN [s EXCEPT !.phase = COUNTDOWN, !.hold_start = timestamp]
         ELSE s
    ELSE IF s.phase = COUNTDOWN
    THEN IF is_valid
         THEN IF timestamp - s.hold_start >= stability_duration
              THEN [s EXCEPT !.phase = ACTIVE, !.active_start = timestamp,
                             !.elapsed_raw = 0]
              ELSE [s EXCEPT !.countdown_remaining =
                        IntSeconds(stability_duration - (timestamp - s.hold_start)) + 1]
         ELSE [s EXCEPT !.phase = WAITING, !.hold_start = NoTime,
                        !.countdown_remaining = 0]
    ELSE IF s.phase = ACTIVE
    THEN IF is_valid
         THEN [s EXCEPT !.elapsed_raw = timestamp - s.active_start]
         ELSE [s EXCEPT !.phase = FINISHED]
    ELSE IF is_valid
         THEN [s EXCEPT !.phase = COUNTDOWN, !.hold_start = timestamp]
         ELSE s

(* Variant of HoldTransition: a broken hold pauses: it goes back to        *)
(* WAITING instead of finishing.                                           *)
HoldTransitionBreakPauses(s, is_valid, timestamp) ==
    IF s.phase = WAITING
    THEN IF is_valid
         THEN [s EXCEPT !.phase = COUNTDOWN, !.hold_start = timestamp]
         ELSE s
    ELSE IF s.phase = COUNTDOWN
    THEN IF is_valid
         THEN IF timestamp - s.hold_start >= stability_duration
              THEN [s EXCEPT !.phase = ACTIVE, !.active_start = timestamp,
                             !.elapsed_raw = 0]
              ELSE [s EXCEPT !.countdown_remaining =
                        IntSeconds(stability_duration - (timestamp - s.hold_start)) + 1]
         ELSE [s EXCEPT !.phase = WAITING, !.hold_start = NoTime,
                        !.countdown_remaining = 0]
    ELSE IF s.phase = ACTIVE
    THEN IF is_valid
         THEN [s EXCEPT !.elapsed_raw = timestamp - s.active_start]
         ELSE [s EXCEPT !.phase = WAITING, !.hold_start = NoTime]
    ELSE s

(* Variant of HoldTransition: invalid form during the countdown is         *)
(* forgiven, the countdown goes on.                                         *)
HoldTransitionForgivesCountdown(s, is_valid, timestamp) ==
    IF s.phase = WAITING
    THEN IF is_valid
         THEN [s EXCEPT !.phase = COUNTDOWN, !.hold_start = timestamp]
         ELSE s
    ELSE IF s.phase = COUNTDOWN
    THEN IF is_valid
         THEN IF timestamp - s.hold_start >= stability_duration
              THEN [s EXCEPT !.phase = ACTIVE, !.active_start = timestamp,
                             !.elapsed_raw = 0]
              ELSE [s EXCEPT !.countdown_remaining =
                        IntSeconds(stability_duration - (timestamp - s.hold_start)) + 1]
         ELSE s
    ELSE IF s.phase = ACTIVE
    THEN IF is_valid
         THEN [s EXCEPT !.elapsed_raw = timestamp - s.active_start]
         ELSE [s EXCEPT !.phase = FINISHED]
    ELSE s

(* Variant of HoldTransition: the timer already counts during the          *)
(* countdown.                                                               *)
HoldTransitionCountsCountdown(s, is_valid, timestamp) ==
    IF s.phase = WAITING
    THEN IF is_valid
         THEN [s EXCEPT !.phase = COUNTDOWN, !.hold_start = timestamp]
         ELSE s
    ELSE IF s.phase = COUNTDOWN
    THEN IF is_valid
         THEN IF timestamp - s.hold_start >= stability_duration
              THEN [s EXCEPT !.phase = ACTIVE, !.active_start = timestamp,
                             !.elapsed_raw = 0]
              ELSE [s EXCEPT !.elapsed_raw = timestamp - s.hold_start,
                             !.countdown_remaining =
                        IntSeconds(stability_duration - (timestamp - s.hold_start)) + 1]
         ELSE [s EXCEPT !.phase = WAITING, !.hold_start = NoTime,
                        !.countdown_remaining = 0]
    ELSE IF s.phase = ACTIVE
    THEN IF is_valid
         THEN [s EXCEPT !.elapsed_raw = timestamp - s.active_start]
         ELSE [s EXCEPT !.phase = FINISHED]
    ELSE s

(* Variant of HoldTransition: invalid form during the hold is tolerated,   *)
(* the timer stays ACTIVE.                                                  *)
HoldTransitionToleratesBreak(s, is_valid, timestamp) ==
    IF s.phase = WAITING
    THEN IF is_valid
         THEN [s EXCEPT !.phase = COUNTDOWN, !.hold_start = timestamp]
         ELSE s
    ELSE IF s.phase = COUNTDOWN
    THEN IF is_valid
         THEN IF timestamp - s.hold_start >= stability_duration
              THEN [s EXCEPT !.phase = ACTIVE, !.active_start = timestamp,
                             !.elapsed_raw = 0]
              ELSE [s EXCEPT !.countdown_remaining =
                        IntSeconds(stability_duration - (timestamp - s.hold_start)) + 1]
         ELSE [s EXCEPT !.phase = WAITING, !.hold_start = NoTime,
                        !.countdown_remaining = 0]
    ELSE IF s.phase = ACTIVE
    THEN IF is_valid
         THEN [s EXCEPT !.elapsed_raw = timestamp - s.active_start]
         ELSE s
    ELSE s

(* StaticDurationCounter.process, lines 202-229: the phase and timestamps it *)
(* leaves.                                                                   *)
HoldTransition(s, is_valid, timestamp) ==
    IF s.phase = WAITING
    THEN IF is_valid
         THEN [s EXCEPT !.phase = COUNTDOWN, !.hold_start = timestamp]
         ELSE s
    ELSE IF s.phase = COUNTDOWN
    THEN IF is_valid
         THEN IF timestamp - s.hold_start >= stability_duration
              THEN [s EXCEPT !.phase = ACTIVE, !.active_start = timestamp,
                             !.elapsed_raw = 0]
              ELSE [s EXCEPT !.countdown_remaining =
                        IntSeconds(stability_duration - (timestamp - s.hold_start)) + 1]
         ELSE [s EXCEPT !.phase = WAITING, !.hold_start = NoTime,
                        !.countdown_remaining = 0]
    ELSE IF s.phase = ACTIVE
    THEN IF is_valid
         THEN [s EXCEPT !.elapsed_raw = timestamp - s.active_start]
         ELSE [s EXCEPT !.phase = FINISHED]
    ELSE s

(* StaticDurationCounter.__init__ *)
HoldConstruct(sd) ==
    /\ stability_duration = sd
    /\ hphase = WAITING
    /\ elapsed_seconds = 0
    /\ hold_start = NoTime
    /\ active_start = NoTime
    /\ elapsed_raw = 0
    /\ countdown_remaining = 0
    /\ hcCall = NoHoldCall

(* StaticDurationCounter.process(is_valid, timestamp), lines 201-232 *)
HoldProcess(is_valid, timestamp) ==
    /\ LET s == HoldTransition(HoldState, is_valid, timestamp)
       IN  /\ hphase' = s.phase
           /\ hold_start' = s.hold_start
           /\ active_start' = s.active_start
           /\ elapsed_raw' = s.elapsed_raw
           /\ countdown_remaining' = s.countdown_remaining
           /\ elapsed_seconds' = IntSeconds(s.elapsed_raw)
           /\ hcCall' = [op |-> "process", is_valid |-> is_valid, timestamp |-> timestamp,
                         ret |-> <<IntSeconds(s.elapsed_raw), s.phase>>,
                         was |-> [phase |-> hphase, hold_start |-> hold_start]]
    /\ UNCHANGED <<stability_duration, cfgVars, rcVars, rcCall, drv, thrVars, extVars>>

(* StaticDurationCounter.reset() *)
HoldReset ==
    /\ hphase' = WAITING
    /\ elapsed_seconds' = 0
    /\ hold_start' = NoTime
    /\ active_start' = NoTime
    /\ elapsed_raw' = 0
    /\ countdown_remaining' = 0
    /\ hcCall' = [op |-> "reset", is_valid |-> FALSE, timestamp |-> NoTime, ret |-> <<>>,
                  was |-> [phase |-> hphase, hold_start |-> hold_start]]
    /\ UNCHANGED <<stability_duration, cfgVars, rcVars, rcCall, drv, thrVars, extVars>>

(* The RepetitionCounter variables rest while the hold timer runs. *)
IdleCounter ==
    /\ up_threshold = 0
    /\ down_threshold = 0
    /\ state_prefix = ""
    /\ inverted = FALSE
    /\ stability_frames = FSM_STABILITY_FRAMES
    /\ phase = START
    /\ reps = 0
    /\ history = <<>>
    /\ rcCall = [op |-> "init", angle |-> NoAngle, ret |-> <<>>, was |-> NoWas]

InitHold ==
    /\ \E sd \in StabilityDurations : HoldConstruct(sd)
    /\ IdleCounter
    /\ IdleDriver
    /\ IdleThreads
    /\ IdleExt

NextHold ==
    \/ \E v \in BOOLEAN, t \in Times : HoldProcess(v, t)
    \/ HoldReset

SpecHold == InitHold /\ [][NextHold]_vars

(* C9: hold timer activation: from WAITING a valid process(t0) moves to     *)
(* COUNTDOWN recording t0; in COUNTDOWN a valid process(t) with             *)
(* t - t0 >= stability_duration moves to ACTIVE with elapsed 0, and a valid *)
(* process(t) with t - t0 < stability_duration stays in COUNTDOWN.          *)
C9_Activation ==
    [][ (hcCall'.op = "process" /\ hcCall'.is_valid) =>
          /\ (hphase = WAITING =>
                (hphase' = COUNTDOWN /\ hold_start' = hcCall'.timestamp))
          /\ ((hphase = COUNTDOWN
                 /\ hcCall'.timestamp - hold_start >= stability_duration) =>
                /\ hphase' = ACTIVE
                /\ elapsed_seconds' = 0
                /\ hcCall'.ret = <<0, ACTIVE>>)
          /\ ((hphase = COUNTDOWN
                 /\ hcCall'.timestamp - hold_start < stability_duration) =>
                (hphase' = COUNTDOWN /\ hold_start' = hold_start)) ]_vars

(* The timer has just become ACTIVE on a call exactly stability_duration    *)
(* (> 0) after the countdown start.                                         *)
C9_Witness ==
    /\ hcCall.op = "process"
    /\ hcCall.is_valid
    /\ hcCall.was.phase = COUNTDOWN
    /\ hphase = ACTIVE
    /\ stability_duration > 0
    /\ hcCall.timestamp - hcCall.was.hold_start = stability_duration
    /\ elapsed_seconds = 0

(* C10: if form is invalid on a process() call during COUNTDOWN the timer   *)
(* returns to WAITING and the countdown does not carry over: the start is   *)
(* forgotten, ACTIVE is entered only from COUNTDOWN by a valid call at      *)
(* least stability_duration after the recorded start, and the start         *)
(* recorded is the timestamp of the valid call that left WAITING.           *)
C10_CountdownRestarts ==
    [][ (hcCall'.op = "process") =>
          /\ ((hphase = COUNTDOWN /\ ~hcCall'.is_valid) =>
                /\ hphase' = WAITING
                /\ hold_start' = NoTime
                /\ countdown_remaining' = 0
                /\ active_start' = active_start)
          /\ ((hphase' = ACTIVE /\ hphase # ACTIVE) =>
                /\ hphase = COUNTDOWN
                /\ hcCall'.is_valid
                /\ hold_start # NoTime
                /\ hcCall'.timestamp - hold_start >= stability_duration)
          /\ ((hphase = WAITING /\ hphase' = COUNTDOWN) =>
                (hcCall'.is_valid /\ hold_start' = hcCall'.timestamp))
          /\ ((hphase = COUNTDOWN /\ hphase' = COUNTDOWN) =>
                hold_start' = hold_start) ]_vars

(* A countdown that had run for some time was just broken by invalid form.  *)
C10_Witness ==
    /\ hcCall.op = "process"
    /\ ~hcCall.is_valid
    /\ hcCall.was.phase = COUNTDOWN
    /\ hcCall.was.hold_start # NoTime
    /\ hcCall.timestamp > hcCall.was.hold_start
    /\ hphase = WAITING
    /\ hold_start = NoTime

(* C11: in ACTIVE, the first process() call with invalid form moves the    *)
(* timer to FINISHED in that same call, and the elapsed seconds it returns *)
(* equal the value returned by the last valid call made in ACTIVE: the     *)
(* timestamp of the invalid call does not change elapsed.                  *)
C11_BreakFreezesElapsed ==
    [][ (hcCall'.op = "process" /\ ~hcCall'.is_valid /\ hphase = ACTIVE) =>
          /\ hcCall.op = "process"
          /\ hcCall.is_valid
          /\ hcCall.ret[2] = ACTIVE
          /\ hphase' = FINISHED
          /\ hcCall'.ret = <<hcCall.ret[1], FINISHED>>
          /\ elapsed_seconds' = elapsed_seconds
          /\ elapsed_seconds' = hcCall.ret[1] ]_vars

(* An ACTIVE hold that had reached at least one second was just broken by  *)
(* an invalid call whose timestamp lies in a later whole second.           *)
C11_Witness ==
    /\ hcCall.op = "process"
    /\ ~hcCall.is_valid
    /\ hcCall.was.phase = ACTIVE
    /\ hphase = FINISHED
    /\ elapsed_seconds >= 1
    /\ hcCall.timestamp - active_start >= (elapsed_seconds + 1) * TicksPerSecond

(* C12: FINISHED is absorbing: every process() call, valid or invalid and  *)
(* with any timestamp, leaves the phase FINISHED and elapsed_seconds       *)
(* unchanged; only reset() leaves FINISHED, and it returns the timer to    *)
(* WAITING with elapsed 0.                                                 *)
C12_FinishedAbsorbing ==
    [][ hphase = FINISHED =>
          /\ (hcCall'.op = "process" =>
                /\ hphase' = FINISHED
                /\ elapsed_seconds' = elapsed_seconds
                /\ hcCall'.ret = <<elapsed_seconds, FINISHED>>)
          /\ (hphase' # FINISHED => hcCall'.op = "reset")
          /\ (hcCall'.op = "reset" =>
                (hphase' = WAITING /\ elapsed_seconds' = 0)) ]_vars

(* A finished timer holding a non-zero elapsed time has just been called   *)
(* again with valid form at a timestamp after its activation.              *)
C12_Witness ==
    /\ hcCall.op = "process"
    /\ hcCall.is_valid
    /\ hcCall.was.phase = FINISHED
    /\ hphase = FINISHED
    /\ elapsed_seconds >= 1
    /\ hcCall.timestamp > active_start

(* n is the whole-second part of a duration of d ticks. *)
WholeSeconds(d, n) ==
    IF d >= 0
    THEN n * TicksPerSecond <= d /\ d < (n + 1) * TicksPerSecond
    ELSE n <= 0 /\ (0 - n) * TicksPerSecond <= 0 - d
                /\ 0 - d < (1 - n) * TicksPerSecond

(* C13: while ACTIVE and valid, the elapsed value returned by process(t)   *)
(* is the whole-second part of t minus the timestamp of the call that      *)
(* entered ACTIVE.                                                         *)
C13_ElapsedWholeSeconds ==
    [][ (hcCall'.op = "process" /\ hcCall'.is_valid) =>
          /\ ((hphase # ACTIVE /\ hphase' = ACTIVE) =>
                active_start' = hcCall'.timestamp)
          /\ (hphase = ACTIVE =>
                /\ hphase' = ACTIVE
                /\ active_start' = active_start
                /\ WholeSeconds(hcCall'.timestamp - active_start, hcCall'.ret[1])
                /\ elapsed_seconds' = hcCall'.ret[1]) ]_vars

(* A valid call in ACTIVE returned at least one second for a duration that *)
(* is not a whole number of seconds.                                       *)
C13_Witness ==
    /\ hcCall.op = "process"
    /\ hcCall.is_valid
    /\ hcCall.was.phase = ACTIVE
    /\ hphase = ACTIVE
    /\ elapsed_seconds >= 1
    /\ hcCall.timestamp - active_start > elapsed_seconds * TicksPerSecond

(* the phase changes a process() call may make *)
HoldArrows == {<<WAITING, COUNTDOWN>>, <<COUNTDOWN, ACTIVE>>,
               <<COUNTDOWN, WAITING>>, <<ACTIVE, FINISHED>>}

(* C29: between resets the hold timer's phase changes only along           *)
(* WAITING->COUNTDOWN, COUNTDOWN->ACTIVE, COUNTDOWN->WAITING and            *)
(* ACTIVE->FINISHED: no process() call moves ACTIVE back to WAITING or      *)
(* COUNTDOWN, skips from WAITING to ACTIVE, or reaches FINISHED from        *)
(* WAITING or COUNTDOWN.                                                    *)
C29_PhaseArrows ==
    [][ hcCall'.op = "process" =>
          /\ hcCall'.ret[2] = hphase'
          /\ (hphase' # hphase => <<hphase, hphase'>> \in HoldArrows) ]_vars

(* A hold that was activated by a countdown was ended by an invalid call,  *)
(* at a timestamp later than its activation.                               *)
C29_Witness ==
    /\ hcCall.op = "process"
    /\ hcCall.was.phase = ACTIVE
    /\ ~hcCall.is_valid
    /\ hphase = FINISHED
    /\ active_start # NoTime
    /\ hold_start # NoTime
    /\ hcCall.timestamp > active_start

(* C31: the hold timer is ACTIVE only after continuously valid form: every  *)
(* call that leaves the timer in COUNTDOWN is a valid process() call, the   *)
(* first of them recording the countdown start t0 and the later ones        *)
(* keeping it; and ACTIVE is entered, at timestamp t, only from COUNTDOWN   *)
(* by a valid call with t - t0 >= stability_duration.  So every call from   *)
(* the one at t0 up to the one at t had valid form.                         *)
C31_ActiveAfterValidRun ==
    [][ /\ hphase' = COUNTDOWN =>
              /\ hcCall'.op = "process"
              /\ hcCall'.is_valid
              /\ IF hphase = COUNTDOWN
                 THEN hold_start' = hold_start
                 ELSE hphase = WAITING /\ hold_start' = hcCall'.timestamp
        /\ (hphase' = ACTIVE /\ hphase # ACTIVE) =>
              /\ hphase = COUNTDOWN
              /\ hcCall.op = "process"
              /\ hcCall.is_valid
              /\ hcCall'.op = "process"
              /\ hcCall'.is_valid
              /\ hcCall'.timestamp - hold_start >= stability_duration ]_vars

(* The timer became ACTIVE on a call made later than stability_duration     *)
(* (1.5 s) after the countdown start.                                       *)
C31_Witness ==
    /\ hcCall.op = "process"
    /\ hcCall.is_valid
    /\ hcCall.was.phase = COUNTDOWN
    /\ hphase = ACTIVE
    /\ stability_duration = TicksPerSecond + TicksPerSecond \div 2
    /\ hcCall.timestamp - hold_start > stability_duration
    /\ active_start = hcCall.timestamp

(* StaticDurationCounter.process(is_valid, timestamp) on a clock that does  *)
(* not run backwards: the timestamp is not before that of the last call     *)
(* made since construction or reset                                         *)
HoldProcessInOrder(is_valid, timestamp) ==
    /\ hcCall.timestamp <= timestamp
    /\ HoldProcess(is_valid, timestamp)

NextHoldOrdered ==
    \/ \E v \in BOOLEAN, t \in Times : HoldProcessInOrder(v, t)
    \/ HoldReset

SpecHoldOrdered == InitHold /\ [][NextHoldOrdered]_vars

(* C37: for process() calls with non-decreasing timestamps, elapsed_seconds *)
(* is never negative and never decreases between resets, and it is 0 in     *)
(* WAITING and COUNTDOWN.                                                   *)
C37_ElapsedMonotone ==
    [][ /\ elapsed_seconds' >= 0
        /\ hcCall'.op = "process" => elapsed_seconds' >= elapsed_seconds
        /\ hphase' \in {WAITING, COUNTDOWN} => elapsed_seconds' = 0 ]_vars

(* The timer has counted whole seconds over several valid calls in ACTIVE.  *)
C37_Witness ==
    /\ hcCall.op = "process"
    /\ hcCall.is_valid
    /\ hcCall.was.phase = ACTIVE
    /\ hphase = ACTIVE
    /\ elapsed_seconds >= 2
    /\ hcCall.ret[1] = elapsed_seconds

----------------------------------------------------------------------------
(* FeedbackSystem (src/src/core/feedback.py)                                *)
(*                                                                          *)
(* A rule is the tuple (priority, condition, message_key).  A condition is  *)
(* a function object: two conditions are equal only when they are the same  *)
(* object, and Python defines no order between two functions.  A context is *)
(* represented by the set of conditions that are true on it.                *)

MaxRules == 3

Priorities == {1, 5, 10}
Conditions == {"cond_a", "cond_b", "cond_c"}
(* message keys, listed in Python's string order *)
MessageKeys == <<"plank_err_hips", "squat_too_shallow">>
Contexts == SUBSET Conditions

KeyRank(k) == CHOOSE i \in 1..Len(MessageKeys) : MessageKeys[i] = k

(* condition(context) *)
Holds(condition, context) == condition \in context

(* x < y on two rule tuples, as Python compares tuples: the first element   *)
(* that differs decides; two different function objects raise TypeError.    *)
TupleLess(x, y) ==
    IF x.priority # y.priority
    THEN (IF x.priority < y.priority THEN "lt" ELSE "ge")
    ELSE IF x.condition # y.condition
    THEN "TypeError"
    ELSE IF KeyRank(x.message_key) < KeyRank(y.message_key) THEN "lt" ELSE "ge"

NoPos == 0 - 1

(* bisect.insort (insort_right): the 0-based insertion point, or NoPos when *)
(* a comparison raised.                                                     *)
RECURSIVE Bisect(_, _, _, _)
Bisect(a, x, lo, hi) ==
    IF lo >= hi
    THEN lo
    ELSE LET mid == (lo + hi) \div 2
             c == TupleLess(x, a[mid + 1])
         IN  IF c = "TypeError" THEN NoPos
             ELSE IF c = "lt" THEN Bisect(a, x, lo, mid)
             ELSE Bisect(a, x, mid + 1, hi)

InsertAt(a, x, pos) == SubSeq(a, 1, pos) \o <<x>> \o SubSeq(a, pos + 1, Len(a))

RECURSIVE CheckUpFrom(_, _, _)
CheckUpFrom(rs, context, i) ==
    IF i > Len(rs)
    THEN <<"feedback_perfect", TRUE>>
    ELSE IF Holds(rs[i].condition, context)
    THEN <<rs[i].message_key, FALSE>>
    ELSE CheckUpFrom(rs, context, i + 1)

(* Variant of Check: scans the stored list from its first element.          *)
CheckLowestFirst(rs, context) == CheckUpFrom(rs, context, 1)

RECURSIVE CheckFrom(_, _, _)
(* the loop of check(): reversed(self.rules) from position i down *)
CheckFrom(rs, context, i) ==
    IF i = 0
    THEN <<"feedback_perfect", TRUE>>
    ELSE IF Holds(rs[i].condition, context)
    THEN <<rs[i].message_key, FALSE>>
    ELSE CheckFrom(rs, context, i - 1)

(* FeedbackSystem.check(context): the (message_key, is_valid) returned *)
Check(rs, context) == CheckFrom(rs, context, Len(rs))

(* FeedbackSystem.add_rule(condition, message_key, priority) *)
AddRule(condition, message_key, priority) ==
    /\ Len(added) < MaxRules
    /\ LET x == [priority |-> priority, condition |-> condition,
                 message_key |-> message_key]
           pos == Bisect(rules, x, 0, Len(rules))
       IN  IF pos = NoPos
           THEN /\ UNCHANGED <<rules, added>>
                /\ fbCall' = [op |-> "add_rule", context |-> {}, ret |-> <<>>,
                              raised |-> TRUE]
           ELSE /\ rules' = InsertAt(rules, x, pos)
                /\ added' = Append(added, x)
                /\ fbCall' = [op |-> "add_rule", context |-> {}, ret |-> <<>>,
                              raised |-> FALSE]
    /\ UNCHANGED <<cfgVars, rcVars, rcCall, drv, thrVars, moreVars, holdVars, filtVars, anVars>>

(* a call of FeedbackSystem.check(context) *)
CheckCall(context) ==
    /\ fbCall' = [op |-> "check", context |-> context, ret |-> Check(rules, context),
                  raised |-> FALSE]
    /\ UNCHANGED <<rules, added>>
    /\ UNCHANGED <<cfgVars, rcVars, rcCall, drv, thrVars, moreVars, holdVars, filtVars, anVars>>

(* FeedbackSystem.reset(): pass *)
FeedbackReset ==
    /\ fbCall' = [op |-> "reset", context |-> {}, ret |-> <<>>, raised |-> FALSE]
    /\ UNCHANGED <<rules, added>>
    /\ UNCHANGED <<cfgVars, rcVars, rcCall, drv, thrVars, moreVars, holdVars, filtVars, anVars>>

InitFeedback ==
    /\ IdleFeedback
    /\ IdleFilter
    /\ IdleAnalyzer
    /\ IdleMore
    /\ IdleCounter
    /\ IdleDriver
    /\ IdleThreads
    /\ IdleHold

NextFeedback ==
    \/ \E c \in Conditions, i \in 1..Len(MessageKeys), pr \in Priorities :
          AddRule(c, MessageKeys[i], pr)
    \/ \E context \in Contexts : CheckCall(context)
    \/ FeedbackReset

SpecFeedback == InitFeedback /\ [][NextFeedback]_vars

(* the stored rules whose predicate is true on a context *)
Triggered(rs, context) == {i \in 1..Len(rs) : Holds(rs[i].condition, context)}

(* C14: check(context) returns (key, False) where key is the message key of *)
(* a rule of the highest priority among the stored rules whose predicate is *)
(* true on the context, whatever the order in which the rules were added    *)
(* (the stored list is the added rules in ascending priority); when no      *)
(* predicate is true it returns ("feedback_perfect", True); check() does    *)
(* not change the rule set.                                                 *)
C14_CheckHighestPriority ==
    [][ fbCall'.op = "check" =>
          /\ rules' = rules
          /\ \A i \in 1..Len(rules) : \E k \in 1..Len(added) : added[k] = rules[i]
          /\ \A k \in 1..Len(added) : \E i \in 1..Len(rules) : rules[i] = added[k]
          /\ \A i, j \in 1..Len(rules) :
                i < j => rules[i].priority <= rules[j].priority
          /\ LET T == Triggered(rules, fbCall'.context)
             IN  IF T = {}
                 THEN fbCall'.ret = <<"feedback_perfect", TRUE>>
                 ELSE /\ fbCall'.ret[2] = FALSE
                      /\ \E i \in T :
                            /\ fbCall'.ret[1] = rules[i].message_key
                            /\ \A j \in T :
                                  rules[j].priority <= rules[i].priority ]_vars

(* check() was called on a context that triggers two stored rules of        *)
(* different priorities and keys, the higher one having been added first,   *)
(* and returned the higher one's key.                                       *)
C14_Witness ==
    /\ fbCall.op = "check"
    /\ Len(added) >= 2
    /\ added[1].priority > added[2].priority
    /\ added[1].message_key # added[2].message_key
    /\ Holds(added[1].condition, fbCall.context)
    /\ Holds(added[2].condition, fbCall.context)
    /\ \A k \in 1..Len(added) : added[k].priority <= added[1].priority
    /\ fbCall.ret = <<added[1].message_key, FALSE>>

(* C39: add_rule accepts several different rules with the same priority    *)
(* (the default priority 1 included): every add_rule call stores its rule,  *)
(* the list stays sorted by ascending priority, and check() still returns a *)
(* triggered rule of the highest triggered priority.                        *)
C39_EqualPrioritiesAccepted ==
    [][ fbCall'.op = "add_rule" =>
          /\ ~fbCall'.raised
          /\ Len(rules') = Len(rules) + 1
          /\ Len(added') = Len(added) + 1
          /\ \A i, j \in 1..Len(rules') :
                i < j => rules'[i].priority <= rules'[j].priority ]_vars

(* What does hold: a call that raises stores nothing, a call that returns   *)
(* stores its rule in priority order, and the rules stored under one        *)
(* priority all carry the same predicate: a rule whose priority ties with   *)
(* a stored rule of another predicate is never accepted.                    *)
C39_RaisesOnPriorityTie ==
    [][ fbCall'.op = "add_rule" =>
          /\ IF fbCall'.raised
             THEN rules' = rules /\ added' = added /\ Len(rules) >= 1
             ELSE Len(rules') = Len(rules) + 1
          /\ \A i, j \in 1..Len(rules') :
                /\ i < j => rules'[i].priority <= rules'[j].priority
                /\ rules'[i].priority = rules'[j].priority =>
                      rules'[i].condition = rules'[j].condition ]_vars

(* A second rule of the default priority 1, with another predicate, was     *)
(* refused: add_rule raised and one rule is stored.                         *)
C39_SecondDefaultRuleRaised ==
    /\ fbCall.op = "add_rule"
    /\ fbCall.raised
    /\ Len(rules) = 1
    /\ rules[1].priority = 1

----------------------------------------------------------------------------
(* OneEuroFilter (src/src/utils/smoothing.py)                               *)
(*                                                                          *)
(* Fixed point: signal values are integers, timestamps are ticks, cutoff    *)
(* frequencies and beta are in hundredths (1.0 Hz = Centi), a smoothing     *)
(* factor is the fraction num/den, pi is PiNum/PiDen, and a quotient is     *)
(* rounded down.                                                            *)

MaxCalls == 4
MaxFilterTime == 3

Centi == 10 * 10
PiNum == 22
PiDen == 7

(* OneEuroFilter() defaults, and the parameters the analyzers pass *)
FilterConfigs ==
    { [min_cutoff |-> Centi, beta |-> 0, d_cutoff |-> Centi],
      [min_cutoff |-> Centi \div 10, beta |-> Centi \div 20, d_cutoff |-> Centi] }
Samples == {0, 40, 100}
FilterTimes == 0..MaxFilterTime

Abs(v) == IF v >= 0 THEN v ELSE 0 - v

(* smoothing_factor(dt, cutoff): r / (r + 1) with r = 2 * pi * cutoff * dt *)
SmoothingFactor(dt, cutoff) ==
    LET rNum == 2 * PiNum * cutoff * dt
        rDen == PiDen * Centi * TicksPerSecond
    IN  [num |-> rNum, den |-> rNum + rDen]

(* exponential_smoothing(a, x, x_prev): a * x + (1 - a) * x_prev *)
ExponentialSmoothing(a, x, xp) == (a.num * x + (a.den - a.num) * xp) \div a.den

FilterState == [x_prev |-> x_prev, dx_prev |-> dx_prev, t_prev |-> t_prev]

(* Variant of FilterStep: a call with a stale timestamp still stores that   *)
(* timestamp.                                                               *)
FilterStepStoresStaleTime(cfg, s, x, t) ==
    IF s.x_prev = None
    THEN [x_prev |-> Some(x), dx_prev |-> Some(0), t_prev |-> Some(t), ret |-> Some(x)]
    ELSE LET dt == t - Val(s.t_prev)
         IN  IF dt <= 0
             THEN [x_prev |-> s.x_prev, dx_prev |-> s.dx_prev, t_prev |-> Some(t),
                   ret |-> s.x_prev]
             ELSE LET a_d == SmoothingFactor(dt, cfg.d_cutoff)
                      dx == ((x - Val(s.x_prev)) * TicksPerSecond) \div dt
                      dx_hat == ExponentialSmoothing(a_d, dx, Val(s.dx_prev))
                      cutoff == cfg.min_cutoff + cfg.beta * Abs(dx_hat)
                      a == SmoothingFactor(dt, cutoff)
                      x_hat == ExponentialSmoothing(a, x, Val(s.x_prev))
                  IN  [x_prev |-> Some(x_hat), dx_prev |-> Some(dx_hat),
                       t_prev |-> Some(t), ret |-> Some(x_hat)]

(* OneEuroFilter.__call__(x, t), lines 26-55: the state it leaves and the   *)
(* value it returns.                                                        *)
FilterStep(cfg, s, x, t) ==
    IF s.x_prev = None
    THEN [x_prev |-> Some(x), dx_prev |-> Some(0), t_prev |-> Some(t), ret |-> Some(x)]
    ELSE LET dt == t - Val(s.t_prev)
         IN  IF dt <= 0
             THEN [x_prev |-> s.x_prev, dx_prev |-> s.dx_prev, t_prev |-> s.t_prev,
                   ret |-> s.x_prev]
             ELSE LET a_d == SmoothingFactor(dt, cfg.d_cutoff)
                      dx == ((x - Val(s.x_prev)) * TicksPerSecond) \div dt
                      dx_hat == ExponentialSmoothing(a_d, dx, Val(s.dx_prev))
                      cutoff == cfg.min_cutoff + cfg.beta * Abs(dx_hat)
                      a == SmoothingFactor(dt, cutoff)
                      x_hat == ExponentialSmoothing(a, x, Val(s.x_prev))
                  IN  [x_prev |-> Some(x_hat), dx_prev |-> Some(dx_hat),
                       t_prev |-> Some(t), ret |-> Some(x_hat)]

(* Variant of FilterResetState: reset() forgets the derivative only.        *)
FilterResetKeepsValue(s) == [s EXCEPT !.dx_prev = Some(0)]

(* OneEuroFilter.reset(): the state it leaves *)
FilterResetState(s) == [x_prev |-> None, dx_prev |-> None, t_prev |-> None]

(* OneEuroFilter.__init__ *)
FilterConstruct(cfg) ==
    /\ fcfg = cfg
    /\ x_prev = None
    /\ dx_prev = None
    /\ t_prev = None
    /\ filtCall = NoFiltCall
    /\ calls = 0
    /\ stale = NoFilterState

(* a call filter(x, t) *)
FilterCall(x, t) ==
    /\ calls < MaxCalls
    /\ LET r == FilterStep(fcfg, FilterState, x, t)
       IN  /\ x_prev' = r.x_prev
           /\ dx_prev' = r.dx_prev
           /\ t_prev' = r.t_prev
           /\ filtCall' = [op |-> "call", x |-> x, t |-> t, ret |-> r.ret,
                           was |-> FilterState]
    /\ calls' = calls + 1
    /\ UNCHANGED <<fcfg, stale>>
    /\ UNCHANGED <<cfgVars, rcVars, rcCall, drv, thrVars, moreVars, holdVars, fbVars, anVars>>

(* a call filter.reset() *)
FilterReset ==
    /\ LET r == FilterResetState(FilterState)
       IN  /\ x_prev' = r.x_prev
           /\ dx_prev' = r.dx_prev
           /\ t_prev' = r.t_prev
    /\ filtCall' = [op |-> "reset", x |-> 0, t |-> 0, ret |-> None, was |-> FilterState]
    /\ stale' = FilterState
    /\ UNCHANGED <<fcfg, calls>>
    /\ UNCHANGED <<cfgVars, rcVars, rcCall, drv, thrVars, moreVars, holdVars, fbVars, anVars>>

InitFilter ==
    /\ \E cfg \in FilterConfigs : FilterConstruct(cfg)
    /\ IdleFeedback
    /\ IdleAnalyzer
    /\ IdleMore
    /\ IdleCounter
    /\ IdleDriver
    /\ IdleThreads
    /\ IdleHold

NextFilter ==
    \/ \E x \in Samples, t \in FilterTimes : FilterCall(x, t)
    \/ FilterReset

SpecFilter == InitFilter /\ [][NextFilter]_vars

(* C18: the filter returns its input unchanged on the first call after      *)
(* construction and on the first call after reset(), whatever samples and   *)
(* timestamps came before: construction and reset() leave no value,         *)
(* derivative or timestamp, and a call made in that state stores            *)
(* (x, 0, t) and returns x.                                                 *)
C18_FirstCallReturnsInput ==
    [][ /\ (filtCall'.op = "reset" =>
              (x_prev' = None /\ dx_prev' = None /\ t_prev' = None))
        /\ ((filtCall'.op = "call" /\ filtCall.op \in {"init", "reset"}) =>
              /\ x_prev = None
              /\ filtCall'.ret = Some(filtCall'.x)
              /\ x_prev' = Some(filtCall'.x)
              /\ dx_prev' = Some(0)
              /\ t_prev' = Some(filtCall'.t)) ]_vars

(* The first call after a reset() that discarded a moving state with a      *)
(* later timestamp and another value returned its input unchanged.          *)
C18_Witness ==
    /\ filtCall.op = "call"
    /\ filtCall.was.x_prev = None
    /\ stale.x_prev # None
    /\ Val(stale.dx_prev) # 0
    /\ Val(stale.t_prev) > filtCall.t
    /\ Val(stale.x_prev) # filtCall.x
    /\ filtCall.ret = Some(filtCall.x)

(* C19: a call with a timestamp not later than the stored one (dt <= 0)     *)
(* returns the previous smoothed value and leaves the stored value,         *)
(* derivative and timestamp unchanged; so no call decreases the stored      *)
(* timestamp.                                                               *)
C19_StaleTimestampIgnored ==
    [][ (filtCall'.op = "call" /\ t_prev # None) =>
          /\ (filtCall'.t <= Val(t_prev) =>
                /\ filtCall'.ret = x_prev
                /\ x_prev' = x_prev
                /\ dx_prev' = dx_prev
                /\ t_prev' = t_prev)
          /\ Val(t_prev') >= Val(t_prev) ]_vars

(* A call with an earlier timestamp and a different sample was made on a    *)
(* filter holding a non-zero derivative, and returned the stored value.     *)
C19_Witness ==
    /\ filtCall.op = "call"
    /\ filtCall.was.x_prev # None
    /\ filtCall.t < Val(filtCall.was.t_prev)
    /\ filtCall.x # Val(filtCall.was.x_prev)
    /\ Val(filtCall.was.dx_prev) # 0
    /\ filtCall.ret = filtCall.was.x_prev
    /\ t_prev = filtCall.was.t_prev

----------------------------------------------------------------------------
(* Exercise analyzers: Squat, BicepCurl, PushUp, Plank (src/src/exercises)  *)
(* and their base class Exercise (src/src/core/interfaces.py).              *)
(*                                                                          *)
(* A frame gives, for each body side, the raw confidence of each joint the  *)
(* analyzer reads on that side (in hundredths) and the angles that          *)
(* calculate_angle returns on the smoothed coordinates of that side.  A     *)
(* joint filter is represented by whether it holds state.                   *)

MaxFrames == 6
(* for the analyzers fed both sides or a timestamp *)
MaxFramesWide == 3

CONFIDENCE_THRESHOLD == 50
(* the fixed margin of the push-up side selection, abs(conf_l - conf_r) > 0.1 *)
ConfidenceMargin == 10
(* the confidence of a joint the detector is unsure of *)
LowConfidence == 30
ExerciseHistoryMaxLen == 30
(* curl: in "up" the elbow must be closed below 90 *)
CurlFlexionLimit == 90
SQUAT_THRESHOLDS == [UP_ANGLE |-> 160, DOWN_ANGLE |-> 90]
CURL_THRESHOLDS == [UP_ANGLE |-> 30, DOWN_ANGLE |-> 160]
PUSHUP_THRESHOLDS == [UP_ANGLE |-> 160, DOWN_ANGLE |-> 90, FORM_ANGLE_MIN |-> 160]
PLANK_THRESHOLDS == [SHOULDER_HIP_ANKLE_MIN |-> 160, ELBOW_ANGLE_MIN |-> 70,
                     ELBOW_ANGLE_MAX |-> 110]

RepKinds == {"squat", "curl", "pushup"}
Kinds == RepKinds \cup {"plank"}
Sides == {"left", "right"}
SideChoices(k) == IF k = "plank" THEN Sides ELSE Sides \cup {"both"}

(* the sides process_frame evaluates *)
SidesToProcess(sd) == IF sd = "both" THEN Sides ELSE {sd}

(* the joint indices read on one side, in the order the code lists them *)
RequiredJoints(k, sd) ==
    IF k = "squat"
    THEN (IF sd = "left" THEN <<11, 13, 15>> ELSE <<12, 14, 16>>)
    ELSE IF k = "curl"
    THEN (IF sd = "left" THEN <<5, 7, 9>> ELSE <<6, 8, 10>>)
    ELSE (IF sd = "left" THEN <<5, 7, 9, 11, 15>> ELSE <<6, 8, 10, 12, 16>>)

JointCount(k) == Len(RequiredJoints(k, "left"))

(* the keys of self.smoothers *)
SmootherJoints(k) ==
    {RequiredJoints(k, sd)[i] : sd \in Sides, i \in 1..JointCount(k)}

(* landmarks[idx][2] of the i-th required joint of a side *)
JointConf(d, i) == IF d.low = i THEN LowConfidence ELSE d.level

(* the confidence gate on a set of joint positions of one side *)
GatePasses(d, positions) ==
    \A i \in positions : JointConf(d, i) >= CONFIDENCE_THRESHOLD

(* Variant of SidePasses: the last required joint is not looked at.        *)
SidePassesIgnoresLast(k, d) == GatePasses(d, 1..(JointCount(k) - 1))

(* the gate of squat, curl and push-up: every required joint of the side *)
SidePasses(k, d) == GatePasses(d, 1..JointCount(k))

RECURSIVE ConfSumTo(_, _)
ConfSumTo(d, n) == IF n = 0 THEN 0 ELSE JointConf(d, n) + ConfSumTo(d, n - 1)

(* np.mean of two angles *)
Mean2(a, b) == (a + b) \div 2

(* Exercise.smooth_landmarks: every registered filter is called *)
SmoothLandmarks(sm) == [j \in DOMAIN sm |-> TRUE]

(* deque(maxlen=30).append *)
HistoryAppend(h, e) ==
    IF Len(h) < ExerciseHistoryMaxLen THEN Append(h, e) ELSE Append(Tail(h), e)

(* Variant of StableAbove: one previous frame is enough *)
StableAboveOneFrame(h, bound) ==
    /\ Len(h) >= 1
    /\ h[Len(h)].angle > bound

(* Exercise._is_stable_change(lambda x: x["angle"] > bound, 2) *)
StableAbove(h, bound) ==
    /\ Len(h) >= 2
    /\ \A i \in (Len(h) - 1)..Len(h) : h[i].angle > bound

(* Exercise._is_stable_change(lambda x: x["angle"] < bound, 2) *)
StableBelow(h, bound) ==
    /\ Len(h) >= 2
    /\ \A i \in (Len(h) - 1)..Len(h) : h[i].angle < bound

(* the early return of squat, curl and push-up *)
NotVisible(rp) ==
    [reps |-> rp, stage |-> "unknown", correction |-> "err_body_not_visible",
     angle |-> 0, is_valid |-> FALSE]

AnWas == [reps |-> self_reps, stage |-> stage, len |-> Len(an_history),
          primed |-> \E j \in DOMAIN smoothers : smoothers[j]]

(* the frames fed to an analyzer: the side it does not read is left out *)
Profiles(k) ==
    {[level |-> 90, low |-> 0], [level |-> 50, low |-> 0],
     [level |-> 90, low |-> JointCount(k)]}
       \cup (IF k = "pushup" THEN {[level |-> 60, low |-> 0]}
             ELSE {[level |-> 90, low |-> 1]})
       \cup (IF k = "plank" THEN {[level |-> 90, low |-> 3]} ELSE {})
AnglePairs(k) ==
    IF k = "pushup"
    THEN {<<20, 170>>, <<170, 150>>, <<170, 170>>}
    ELSE IF k = "plank"
    THEN {<<90, 180>>, <<90, 150>>, <<150, 180>>}
    ELSE {<<20, 180>>, <<170, 180>>}
SideData(k) ==
    {[level |-> pr.level, low |-> pr.low, angle |-> ap[1], body_angle |-> ap[2]] :
        pr \in Profiles(k), ap \in AnglePairs(k)}
Frames(k, sd) ==
    IF sd = "both"
    THEN {[left |-> a, right |-> b] : a \in SideData(k), b \in SideData(k)}
    ELSE IF sd = "left"
    THEN {[left |-> a, right |-> NoSideData] : a \in SideData(k)}
    ELSE {[left |-> NoSideData, right |-> b] : b \in SideData(k)}

(* the timestamps fed to Plank.process_frame: whole seconds *)
PlankTimes == {t \in Times : t % TicksPerSecond = 0}

FrameBound ==
    IF side = "both" \/ kind = "plank" THEN MaxFramesWide ELSE MaxFrames

(* ---- Squat ---- *)

(* the sides of a frame that pass the gate *)
ValidSides(k, sd, f) == {x \in SidesToProcess(sd) : SidePasses(k, f[x])}

(* np.mean(valid_angles) *)
MeanAngle(V, f) ==
    IF Cardinality(V) = 1
    THEN f[CHOOSE x \in V : TRUE].angle
    ELSE Mean2(f["left"].angle, f["right"].angle)

(* lines 102-107: the FSM state mapped to the squat stage *)
SquatStage(stage_raw) ==
    IF stage_raw = "up" THEN "squat_up"
    ELSE IF stage_raw = "down" THEN "squat_down"
    ELSE stage_raw

(* Squat.process_frame *)
SquatProcessFrame(f) ==
    /\ kind = "squat"
    /\ frames < FrameBound
    /\ frames' = frames + 1
    /\ smoothers' = SmoothLandmarks(smoothers)
    /\ LET V == ValidSides(kind, side, f)
       IN  IF Cardinality(V) < Cardinality(SidesToProcess(side))
           THEN /\ anCall' = [op |-> "process_frame", frame |-> f, timestamp |-> NoTime,
                              result |-> NotVisible(self_reps), was |-> AnWas]
                /\ UNCHANGED <<self_reps, stage, an_history, rcVars, rcCall>>
           ELSE \E angle \in {MeanAngle(V, f)} :
                \E c \in {ProcessSeq(CounterState, angle)} :
                LET st == SquatStage(Prefixed(c.phase))
                    fb == Check(rules, {})
                    correction == IF fb[1] = "feedback_perfect"
                                  THEN "squat_perfect_form" ELSE fb[1]
                IN  /\ ProcessCall(angle)
                    /\ self_reps' = c.reps
                    /\ stage' = st
                    /\ an_history' = HistoryAppend(an_history,
                           [angle |-> angle, stage |-> st, reps |-> c.reps,
                            is_valid |-> fb[2]])
                    /\ anCall' = [op |-> "process_frame", frame |-> f,
                                  timestamp |-> NoTime,
                                  result |-> [reps |-> c.reps, stage |-> st,
                                              correction |-> correction,
                                              angle |-> angle, is_valid |-> fb[2]],
                                  was |-> AnWas]
    /\ UNCHANGED <<cfgVars, anCfgVars, drv, thrVars, moreVars, holdVars, fbVars, filtVars>>

(* ---- BicepCurl ---- *)

(* lines 84-109: the stage, reps, correction and validity a valid frame leaves *)
CurlStep(st, rp, h, angle) ==
    LET st1 == IF angle > down_threshold
                  /\ StableAbove(h, down_threshold - 5)
               THEN "down" ELSE st
        up == angle < up_threshold /\ st1 = "down"
                 /\ StableBelow(h, up_threshold + 5)
        st2 == IF up THEN "up" ELSE st1
        rp2 == IF up THEN rp + 1 ELSE rp
        bad == st2 = "up" /\ angle > CurlFlexionLimit
    IN  [stage |-> st2, reps |-> rp2,
         correction |-> IF bad THEN "curl_err_flexion" ELSE "curl_perfect_form",
         is_valid |-> ~bad]

(* BicepCurl.process_frame *)
CurlProcessFrame(f) ==
    /\ kind = "curl"
    /\ frames < FrameBound
    /\ frames' = frames + 1
    /\ smoothers' = SmoothLandmarks(smoothers)
    /\ LET V == ValidSides(kind, side, f)
       IN  IF Cardinality(V) < Cardinality(SidesToProcess(side))
           THEN /\ anCall' = [op |-> "process_frame", frame |-> f, timestamp |-> NoTime,
                              result |-> NotVisible(self_reps), was |-> AnWas]
                /\ UNCHANGED <<self_reps, stage, an_history>>
           ELSE \E angle \in {MeanAngle(V, f)} :
                \E r \in {CurlStep(stage, self_reps, an_history, angle)} :
                    /\ self_reps' = r.reps
                    /\ stage' = r.stage
                    /\ an_history' = HistoryAppend(an_history,
                           [angle |-> angle, stage |-> r.stage, reps |-> r.reps,
                            is_valid |-> r.is_valid])
                    /\ anCall' = [op |-> "process_frame", frame |-> f,
                                  timestamp |-> NoTime,
                                  result |-> [reps |-> r.reps, stage |-> r.stage,
                                              correction |-> r.correction,
                                              angle |-> angle, is_valid |-> r.is_valid],
                                  was |-> AnWas]
    /\ UNCHANGED <<cfgVars, rcVars, rcCall, anCfgVars, drv, thrVars, moreVars, holdVars, fbVars,
                   filtVars>>

(* ---- PushUp ---- *)

NoFusion == [ok |-> FALSE, angle |-> 0, body_angle |-> 0]
UseSide(d) == [ok |-> TRUE, angle |-> d.angle, body_angle |-> d.body_angle]

(* Variant of Fusion: the two sides are averaged whenever both are valid.   *)
FusionAlwaysAverages(sd, f) ==
    LET okL == "left" \in SidesToProcess(sd) /\ SidePasses("pushup", f["left"])
        okR == "right" \in SidesToProcess(sd) /\ SidePasses("pushup", f["right"])
    IN  IF okL /\ okR
        THEN [ok |-> TRUE,
              angle |-> Mean2(f["left"].angle, f["right"].angle),
              body_angle |-> Mean2(f["left"].body_angle, f["right"].body_angle)]
        ELSE IF okL THEN UseSide(f["left"])
        ELSE IF okR THEN UseSide(f["right"])
        ELSE NoFusion

(* lines 72-146: the side selection of PushUp.process_frame.  The mean      *)
(* confidences are compared through the sums over the n required joints.    *)
Fusion(sd, f) ==
    LET n == JointCount("pushup")
        okL == "left" \in SidesToProcess(sd) /\ SidePasses("pushup", f["left"])
        okR == "right" \in SidesToProcess(sd) /\ SidePasses("pushup", f["right"])
        conf_l == ConfSumTo(f["left"], n)
        conf_r == ConfSumTo(f["right"], n)
    IN  IF okL /\ okR
        THEN IF Abs(conf_l - conf_r) > ConfidenceMargin * n
             THEN (IF conf_l > conf_r THEN UseSide(f["left"]) ELSE UseSide(f["right"]))
             ELSE [ok |-> TRUE,
                   angle |-> Mean2(f["left"].angle, f["right"].angle),
                   body_angle |-> Mean2(f["left"].body_angle, f["right"].body_angle)]
        ELSE IF okL THEN UseSide(f["left"])
        ELSE IF okR THEN UseSide(f["right"])
        ELSE NoFusion

(* lines 149-175: the stage, reps and correction a valid frame leaves *)
PushUpStep(st, rp, h, angle, body_angle) ==
    LET st1 == IF angle < down_threshold
                  /\ StableBelow(h, down_threshold + HYSTERESIS_TOLERANCE)
               THEN "pushup_down" ELSE st
        up == angle > up_threshold /\ st1 = "pushup_down"
                 /\ StableAbove(h, up_threshold - HYSTERESIS_TOLERANCE)
    IN  [stage |-> IF up THEN "pushup_up" ELSE st1,
         reps |-> IF up THEN rp + 1 ELSE rp,
         correction |-> IF body_angle < form_threshold_min
                        THEN "pushup_warn_back" ELSE "pushup_perfect_form",
         is_valid |-> TRUE]

(* PushUp.process_frame *)
PushUpProcessFrame(f) ==
    /\ kind = "pushup"
    /\ frames < FrameBound
    /\ frames' = frames + 1
    /\ smoothers' = SmoothLandmarks(smoothers)
    /\ \E u \in {Fusion(side, f)} :
           IF ~u.ok
           THEN /\ anCall' = [op |-> "process_frame", frame |-> f, timestamp |-> NoTime,
                              result |-> NotVisible(self_reps), was |-> AnWas]
                /\ UNCHANGED <<self_reps, stage, an_history>>
           ELSE \E r \in {PushUpStep(stage, self_reps, an_history, u.angle,
                                     u.body_angle)} :
                    /\ self_reps' = r.reps
                    /\ stage' = r.stage
                    /\ an_history' = HistoryAppend(an_history,
                           [angle |-> u.angle, body_angle |-> u.body_angle,
                            stage |-> r.stage, reps |-> r.reps,
                            is_valid |-> r.is_valid])
                    /\ anCall' = [op |-> "process_frame", frame |-> f,
                                  timestamp |-> NoTime,
                                  result |-> [reps |-> r.reps, stage |-> r.stage,
                                              correction |-> r.correction,
                                              angle |-> u.angle,
                                              is_valid |-> r.is_valid],
                                  was |-> AnWas]
    /\ UNCHANGED <<cfgVars, rcVars, rcCall, anCfgVars, drv, thrVars, moreVars, holdVars, fbVars,
                   filtVars>>

(* ---- Plank ---- *)

(* the rule Plank.__init__ registers, and the context it is true on *)
PlankHipsRule == [priority |-> 10, condition |-> "body_angle_low",
                  message_key |-> "plank_err_hips"]
PlankContext(body_angle) ==
    IF body_angle < PLANK_THRESHOLDS.SHOULDER_HIP_ANKLE_MIN
    THEN {"body_angle_low"} ELSE {}

(* positions of shoulder, hip, ankle and of shoulder, elbow, wrist in the   *)
(* required joints of a side                                                *)
BodyTriple == {1, 4, 5}
ElbowTriple == {1, 2, 3}

(* Plank._resolve_feedback *)
ResolveFeedback(st, remaining, is_valid_pose, is_form_correct, body_angle) ==
    IF st = FINISHED THEN "plank_feedback_done"
    ELSE IF ~is_valid_pose THEN "err_body_not_visible"
    ELSE IF st = WAITING THEN "plank_feedback_get_ready"
    ELSE IF st = COUNTDOWN
    THEN (IF remaining > 0 THEN "plank_countdown_" \o ToString(remaining)
          ELSE "plank_feedback_hold")
    ELSE IF st = ACTIVE
    THEN LET correction == Check(rules, PlankContext(body_angle))[1]
         IN  IF correction # "feedback_perfect" /\ ~is_form_correct
             THEN correction ELSE "plank_feedback_stay_still"
    ELSE "plank_feedback_get_ready"

(* Variant of PlankAdopt: the analyzer's stage is not updated.             *)
PlankAdoptRepsOnly(total_seconds, state) ==
    /\ self_reps' = total_seconds
    /\ UNCHANGED stage

(* lines 111-112: total_seconds, self.stage = self.fsm.process(...);        *)
(* self.reps = total_seconds                                                *)
PlankAdopt(total_seconds, state) ==
    /\ stage' = state
    /\ self_reps' = total_seconds

(* Plank.process_frame *)
PlankProcessFrame(f, timestamp) ==
    /\ kind = "plank"
    /\ frames < FrameBound
    /\ frames' = frames + 1
    /\ smoothers' = SmoothLandmarks(smoothers)
    /\ LET d == f[side]
           body_seen == GatePasses(d, BodyTriple)
           elbow_seen == GatePasses(d, ElbowTriple)
           is_valid_pose == body_seen /\ elbow_seen
           is_form_correct ==
               /\ is_valid_pose
               /\ d.body_angle >= PLANK_THRESHOLDS.SHOULDER_HIP_ANKLE_MIN
               /\ PLANK_THRESHOLDS.ELBOW_ANGLE_MIN <= d.angle
               /\ d.angle <= PLANK_THRESHOLDS.ELBOW_ANGLE_MAX
       IN  \E h \in {HoldTransition(HoldState, is_form_correct, timestamp)} :
           LET total_seconds == IntSeconds(h.elapsed_raw)
           IN
           /\ hphase' = h.phase
           /\ hold_start' = h.hold_start
           /\ active_start' = h.active_start
           /\ elapsed_raw' = h.elapsed_raw
           /\ countdown_remaining' = h.countdown_remaining
           /\ elapsed_seconds' = total_seconds
           /\ hcCall' = [op |-> "process", is_valid |-> is_form_correct,
                         timestamp |-> timestamp,
                         ret |-> <<total_seconds, h.phase>>,
                         was |-> [phase |-> hphase, hold_start |-> hold_start]]
           /\ PlankAdopt(total_seconds, h.phase)
           /\ anCall' = [op |-> "process_frame", frame |-> f, timestamp |-> timestamp,
                         result |-> [reps |-> total_seconds, stage |-> h.phase,
                                     correction |-> ResolveFeedback(h.phase,
                                         h.countdown_remaining, is_valid_pose,
                                         is_form_correct, d.body_angle),
                                     angle |-> IF body_seen /\ d.body_angle # 0
                                               THEN d.body_angle ELSE 0,
                                     is_valid |-> is_form_correct],
                         was |-> AnWas]
    /\ UNCHANGED <<an_history, stability_duration>>
    /\ UNCHANGED <<cfgVars, rcVars, rcCall, anCfgVars, drv, thrVars, moreVars, fbVars, filtVars>>

(* ---- reset ---- *)

(* the stage an analyzer is constructed with *)
InitialStage(k) == IF k = "plank" THEN WAITING ELSE "start"

(* Variant of ExerciseReset: the joint filters keep their state.            *)
ExerciseResetKeepsFilters(sm) ==
    [reps |-> 0, stage |-> "start", history |-> <<>>, smoothers |-> sm]

(* Exercise.reset(): reps, stage, history and every filter *)
ExerciseReset(sm) ==
    [reps |-> 0, stage |-> "start", history |-> <<>>,
     smoothers |-> [j \in DOMAIN sm |-> FALSE]]

(* Squat.reset, BicepCurl.reset, PushUp.reset, Plank.reset *)
AnalyzerReset ==
    /\ kind \in Kinds
    /\ LET r == ExerciseReset(smoothers)
       IN  /\ self_reps' = r.reps
           /\ stage' = IF kind = "plank" THEN WAITING ELSE r.stage
           /\ an_history' = r.history
           /\ smoothers' = r.smoothers
    /\ IF kind = "squat"
       THEN /\ reps' = 0
            /\ phase' = START
            /\ history' = <<>>
            /\ rcCall' = [op |-> "reset", angle |-> NoAngle, ret |-> <<>>, was |-> Was]
       ELSE UNCHANGED <<rcVars, rcCall>>
    /\ IF kind = "plank"
       THEN /\ hphase' = WAITING
            /\ elapsed_seconds' = 0
            /\ hold_start' = NoTime
            /\ active_start' = NoTime
            /\ elapsed_raw' = 0
            /\ countdown_remaining' = 0
            /\ hcCall' = [op |-> "reset", is_valid |-> FALSE, timestamp |-> NoTime,
                          ret |-> <<>>,
                          was |-> [phase |-> hphase, hold_start |-> hold_start]]
            /\ UNCHANGED stability_duration
       ELSE UNCHANGED holdVars
    /\ anCall' = [op |-> "reset", frame |-> NoFrame, timestamp |-> NoTime,
                  result |-> NoResult, was |-> AnWas]
    /\ UNCHANGED <<cfgVars, anCfgVars, frames, drv, thrVars, moreVars, fbVars, filtVars>>

(* ---- construction ---- *)

SquatConstruction ==
    [up |-> SQUAT_THRESHOLDS.UP_ANGLE, down |-> SQUAT_THRESHOLDS.DOWN_ANGLE,
     start_stage |-> "squat_up", inv |-> FALSE, prefix |-> ""]

(* the thresholds BicepCurl and PushUp keep themselves *)
OwnThresholds(up, down) ==
    /\ up_threshold = up
    /\ down_threshold = down
    /\ state_prefix = ""
    /\ inverted = FALSE
    /\ stability_frames = FSM_STABILITY_FRAMES
    /\ phase = START
    /\ reps = 0
    /\ history = <<>>
    /\ rcCall = [op |-> "init", angle |-> NoAngle, ret |-> <<>>, was |-> NoWas]

(* the configuration the application passes (src/ui/cli.py lines 61-97):   *)
(* the side and the thresholds of the settings; a plank is given its        *)
(* stability_duration, sd2 ticks.                                           *)
AppConfig(k, sd, sd2) ==
    IF k = "pushup"
    THEN [side |-> sd, up_angle |-> PUSHUP_THRESHOLDS.UP_ANGLE,
          down_angle |-> PUSHUP_THRESHOLDS.DOWN_ANGLE,
          form_angle_min |-> PUSHUP_THRESHOLDS.FORM_ANGLE_MIN]
    ELSE IF k = "plank"
    THEN [side |-> sd, stability_duration |-> sd2]
    ELSE IF k = "squat"
    THEN [side |-> sd, up_angle |-> SQUAT_THRESHOLDS.UP_ANGLE,
          down_angle |-> SQUAT_THRESHOLDS.DOWN_ANGLE]
    ELSE [side |-> sd, up_angle |-> CURL_THRESHOLDS.UP_ANGLE,
          down_angle |-> CURL_THRESHOLDS.DOWN_ANGLE]

(* what every analyzer's __init__ sets besides its counter's thresholds *)
AnalyzerFields(k, sd) ==
    /\ kind = k
    /\ side = sd
    /\ self_reps = 0
    /\ stage = InitialStage(k)
    /\ an_history = <<>>
    /\ smoothers = [j \in SmootherJoints(k) |-> FALSE]
    /\ frames = 0
    /\ anCall = NoAnCall
    /\ form_threshold_min =
          IF k = "pushup" THEN PUSHUP_THRESHOLDS.FORM_ANGLE_MIN ELSE 0
    /\ IF k = "plank"
       THEN \E sd2 \in StabilityDurations : HoldConstruct(sd2)
       ELSE IdleHold
    /\ rules = IF k = "plank" THEN <<PlankHipsRule>> ELSE <<>>
    /\ added = rules
    /\ fbCall = NoFbCall
    /\ config = AppConfig(k, sd, stability_duration)
    /\ built = [class |-> k, outcome |-> "ok"]

(* Squat.__init__, BicepCurl.__init__, PushUp.__init__, Plank.__init__ *)
AnalyzerConstruct(k, sd) ==
    /\ AnalyzerFields(k, sd)
    /\ IF k = "squat" THEN Construct(SquatConstruction, FSM_STABILITY_FRAMES)
       ELSE IF k = "curl"
       THEN OwnThresholds(CURL_THRESHOLDS.UP_ANGLE, CURL_THRESHOLDS.DOWN_ANGLE)
       ELSE IF k = "pushup"
       THEN OwnThresholds(PUSHUP_THRESHOLDS.UP_ANGLE, PUSHUP_THRESHOLDS.DOWN_ANGLE)
       ELSE IdleCounter

InitAnalyzer ==
    /\ \E k \in Kinds : \E sd \in SideChoices(k) : AnalyzerConstruct(k, sd)
    /\ IdleDriver
    /\ IdleThreads
    /\ IdleFilter
    /\ IdleMore

NextAnalyzer ==
    \/ kind = "squat" /\ \E f \in Frames(kind, side) : SquatProcessFrame(f)
    \/ kind = "curl" /\ \E f \in Frames(kind, side) : CurlProcessFrame(f)
    \/ kind = "pushup" /\ \E f \in Frames(kind, side) : PushUpProcessFrame(f)
    \/ kind = "plank" /\ \E f \in Frames(kind, side), t \in PlankTimes :
                             PlankProcessFrame(f, t)
    \/ AnalyzerReset

SpecAnalyzer == InitAnalyzer /\ [][NextAnalyzer]_vars

(* some required joint of side data d has raw confidence below the threshold *)
HasLowJoint(k, d) == \E i \in 1..JointCount(k) : JointConf(d, i) < CONFIDENCE_THRESHOLD

(* the step is a process_frame call that was rejected as body-not-visible   *)
(* and left reps alone                                                      *)
RejectedStep ==
    /\ anCall'.result.is_valid = FALSE
    /\ anCall'.result.correction = "err_body_not_visible"
    /\ anCall'.result.reps = self_reps
    /\ self_reps' = self_reps

(* C15 as stated: for squat, curl and push-up, a frame in which any joint   *)
(* of a required side's set has raw confidence below the threshold returns  *)
(* is_valid = False with err_body_not_visible and the same reps.            *)
C15_AsStated ==
    [][ (anCall'.op = "process_frame" /\ kind \in RepKinds
           /\ \E x \in SidesToProcess(side) : HasLowJoint(kind, anCall'.frame[x]))
        => RejectedStep ]_vars

(* C15: for squat and curl, a frame in which any joint of a required side's *)
(* set has raw confidence below the threshold, and for push-up a frame in   *)
(* which every required side has such a joint, returns is_valid = False     *)
(* with correction err_body_not_visible and the same reps as before the     *)
(* frame, whatever the angles are.                                          *)
C15_GateRejects ==
    [][ (anCall'.op = "process_frame"
           /\ \/ /\ kind \in {"squat", "curl"}
                 /\ \E x \in SidesToProcess(side) : HasLowJoint(kind, anCall'.frame[x])
              \/ /\ kind = "pushup"
                 /\ \A x \in SidesToProcess(side) : HasLowJoint(kind, anCall'.frame[x]))
        => RejectedStep ]_vars

(* An analyzer that had counted a rep was given a frame whose last required *)
(* joint alone is below the threshold, and rejected it.                     *)
C15_Witness ==
    /\ anCall.op = "process_frame"
    /\ kind \in RepKinds
    /\ anCall.was.reps >= 1
    /\ \E x \in SidesToProcess(side) :
          /\ anCall.frame[x].low = JointCount(kind)
          /\ anCall.frame[x].level >= CONFIDENCE_THRESHOLD
    /\ anCall.result.correction = "err_body_not_visible"
    /\ anCall.result.is_valid = FALSE
    /\ anCall.result.reps = anCall.was.reps
    /\ self_reps = anCall.was.reps

(* no side the analyzer evaluates passes the confidence gate on frame f *)
NoSidePasses(f) == \A x \in SidesToProcess(side) : HasLowJoint(kind, f[x])

(* C16: for every analyzer (squat, curl, push-up, plank), a frame in which  *)
(* no required side passes the confidence gate returns stage "unknown",     *)
(* angle 0.0, is_valid False and the body-not-visible key, and leaves the   *)
(* analyzer's counter (reps and phase) and its history buffer as they were. *)
C16_NoSideLeavesCounter ==
    [][ (anCall'.op = "process_frame" /\ NoSidePasses(anCall'.frame)) =>
          /\ anCall'.result.stage = "unknown"
          /\ anCall'.result.angle = 0
          /\ anCall'.result.is_valid = FALSE
          /\ anCall'.result.correction = "err_body_not_visible"
          /\ UNCHANGED <<self_reps, stage, an_history>>
          /\ UNCHANGED <<rcVars, hphase, elapsed_seconds>> ]_vars

(* A plank frame with a joint below the threshold ended a running hold:    *)
(* the timer went from ACTIVE to FINISHED and the result carried the        *)
(* timer's stage and the completion key.                                    *)
C16_PlankHoldEnded ==
    /\ anCall.op = "process_frame"
    /\ kind = "plank"
    /\ HasLowJoint("plank", anCall.frame[side])
    /\ anCall.was.stage = ACTIVE
    /\ hphase = FINISHED
    /\ anCall.result.stage = FINISHED
    /\ anCall.result.correction = "plank_feedback_done"

(* The same statement for the three rep-based analyzers only. *)
C16_RepAnalyzers ==
    [][ (anCall'.op = "process_frame" /\ kind \in RepKinds
           /\ NoSidePasses(anCall'.frame)) =>
          /\ anCall'.result = NotVisible(self_reps)
          /\ UNCHANGED <<self_reps, stage, an_history, rcVars>> ]_vars

(* C17: reset() on any analyzer clears everything together: reps 0, stage   *)
(* back to its initial value ("start", "waiting" for plank), history empty, *)
(* every joint filter without state, the embedded counter reset; the        *)
(* configured thresholds and rules are unchanged.                           *)
C17_ResetClearsAll ==
    [][ anCall'.op = "reset" =>
          /\ self_reps' = 0
          /\ stage' = InitialStage(kind)
          /\ an_history' = <<>>
          /\ DOMAIN smoothers' = SmootherJoints(kind)
          /\ \A j \in DOMAIN smoothers' : smoothers'[j] = FALSE
          /\ (kind = "squat" => (reps' = 0 /\ phase' = START /\ history' = <<>>))
          /\ (kind = "plank" =>
                /\ hphase' = WAITING
                /\ elapsed_seconds' = 0
                /\ elapsed_raw' = 0
                /\ hold_start' = NoTime
                /\ active_start' = NoTime
                /\ countdown_remaining' = 0)
          /\ UNCHANGED <<cfgVars, stability_duration, anCfgVars, rules>> ]_vars

(* reset() was called on an analyzer that had counted, had left its initial *)
(* stage, and held history and filter state.                                *)
C17_Witness ==
    /\ anCall.op = "reset"
    /\ anCall.was.reps >= 1
    /\ anCall.was.stage # InitialStage(kind)
    /\ anCall.was.primed
    /\ (kind # "plank" => anCall.was.len >= 1)
    /\ self_reps = 0
    /\ stage = InitialStage(kind)
    /\ an_history = <<>>
    /\ \A j \in DOMAIN smoothers : ~smoothers[j]

(* the angle and body angle a valid push-up frame used: its history entry *)
UsedAngles(h) == <<h[Len(h)].angle, h[Len(h)].body_angle>>
SideAngles(d) == <<d.angle, d.body_angle>>

(* C20: push-up side fusion with side = both: if both sides pass the gate   *)
(* and their mean confidences differ by more than 0.1 the angles of the     *)
(* higher-confidence side are used alone; if they differ by at most 0.1 the *)
(* two sides' angles are averaged; if exactly one side passes, that side is *)
(* used; if none passes the frame is rejected as body-not-visible.          *)
C20_PushUpFusion ==
    [][ (anCall'.op = "process_frame" /\ kind = "pushup" /\ side = "both") =>
          LET l == anCall'.frame["left"]
              r == anCall'.frame["right"]
              n == JointCount("pushup")
              okL == ~HasLowJoint("pushup", l)
              okR == ~HasLowJoint("pushup", r)
              sumL == ConfSumTo(l, n)
              sumR == ConfSumTo(r, n)
              used == UsedAngles(an_history')
              counted == an_history' # an_history /\ Len(an_history') = Len(an_history) + 1
          IN  /\ (okL /\ okR /\ sumL - sumR > ConfidenceMargin * n) =>
                    (counted /\ used = SideAngles(l) /\ anCall'.result.angle = l.angle)
              /\ (okL /\ okR /\ sumR - sumL > ConfidenceMargin * n) =>
                    (counted /\ used = SideAngles(r) /\ anCall'.result.angle = r.angle)
              /\ (okL /\ okR /\ Abs(sumL - sumR) <= ConfidenceMargin * n) =>
                    /\ counted
                    /\ used = <<Mean2(l.angle, r.angle),
                                Mean2(l.body_angle, r.body_angle)>>
                    /\ anCall'.result.angle = Mean2(l.angle, r.angle)
              /\ (okL /\ ~okR) =>
                    (counted /\ used = SideAngles(l) /\ anCall'.result.angle = l.angle)
              /\ (okR /\ ~okL) =>
                    (counted /\ used = SideAngles(r) /\ anCall'.result.angle = r.angle)
              /\ (~okL /\ ~okR) =>
                    /\ anCall'.result = NotVisible(self_reps)
                    /\ UNCHANGED <<self_reps, stage, an_history>> ]_vars

(* Both sides passed with mean confidences more than 0.1 apart, the right   *)
(* one higher, the two sides' angles and body angles differing, and the     *)
(* frame used the right side's angles.                                      *)
C20_Witness ==
    /\ anCall.op = "process_frame"
    /\ kind = "pushup"
    /\ side = "both"
    /\ ~HasLowJoint("pushup", anCall.frame["left"])
    /\ ~HasLowJoint("pushup", anCall.frame["right"])
    /\ ConfSumTo(anCall.frame["right"], JointCount("pushup"))
         - ConfSumTo(anCall.frame["left"], JointCount("pushup"))
         > ConfidenceMargin * JointCount("pushup")
    /\ anCall.frame["left"].angle # anCall.frame["right"].angle
    /\ anCall.frame["left"].body_angle # anCall.frame["right"].body_angle
    /\ anCall.result.angle = anCall.frame["right"].angle
    /\ Len(an_history) >= 1
    /\ UsedAngles(an_history) = SideAngles(anCall.frame["right"])

(* C27: after every Plank.process_frame call the analyzer's reps equals    *)
(* the reps of the returned result and the hold timer's elapsed_seconds,    *)
(* and the analyzer's stage equals the hold timer's state.                  *)
C27_PlankMirrorsTimer ==
    (kind = "plank" /\ anCall.op = "process_frame") =>
        /\ self_reps = anCall.result.reps
        /\ self_reps = elapsed_seconds
        /\ stage = hphase
        /\ anCall.result.stage = hphase
        /\ hcCall.op = "process"
        /\ hcCall.ret = <<elapsed_seconds, hphase>>

(* A plank frame returned with the timer ACTIVE and at least one whole      *)
(* second elapsed.                                                          *)
C27_Witness ==
    /\ kind = "plank"
    /\ anCall.op = "process_frame"
    /\ hphase = ACTIVE
    /\ stage = ACTIVE
    /\ elapsed_seconds >= 1
    /\ self_reps = elapsed_seconds
    /\ anCall.result.reps = elapsed_seconds

(* C38: whenever Plank.process_frame returns stage "active" the correction  *)
(* is plank_feedback_stay_still; plank_err_hips, the key of the registered  *)
(* body-straightness rule, is returned by no frame in any state, because a  *)
(* frame with incorrect form has moved the timer out of ACTIVE before the   *)
(* feedback is resolved.                                                    *)
C38_HipsRuleNeverReported ==
    (kind = "plank" /\ anCall.op = "process_frame") =>
        /\ rules = <<PlankHipsRule>>
        /\ anCall.result.correction # PlankHipsRule.message_key
        /\ anCall.result.stage = ACTIVE =>
              /\ anCall.result.correction = "plank_feedback_stay_still"
              /\ anCall.result.is_valid

(* A plank frame with the hips out of line arrived while the timer was      *)
(* ACTIVE: the rule's condition held, the stage returned is "finished" and  *)
(* the correction plank_feedback_done.                                      *)
C38_Witness ==
    /\ kind = "plank"
    /\ anCall.op = "process_frame"
    /\ anCall.was.stage = ACTIVE
    /\ PlankContext(anCall.frame[side].body_angle) = {"body_angle_low"}
    /\ GatePasses(anCall.frame[side], BodyTriple \cup ElbowTriple)
    /\ anCall.result.stage = FINISHED
    /\ anCall.result.correction = "plank_feedback_done"

-----------------------------------------------------------------------------
(* The rep analyzers beside a RepetitionCounter (SpecDebounce).  One side   *)
(* is read; the angles fed lie on both sides of each threshold and of its   *)
(* tolerance band.  cfgVars hold the configuration of the RepetitionCounter *)
(* the analyzer is compared with: the analyzer's thresholds, inverted for   *)
(* the curl.                                                                *)

DebounceSide == "right"

(* below up - tolerance .. above up, resp. above down + tolerance .. below  *)
(* down, for the thresholds of settings.py                                  *)
DebounceAngles(k) ==
    IF k = "curl"
    THEN {CURL_THRESHOLDS.UP_ANGLE - 10, CURL_THRESHOLDS.UP_ANGLE + 3,
          CURL_THRESHOLDS.DOWN_ANGLE - 3, CURL_THRESHOLDS.DOWN_ANGLE + 10}
    ELSE {PUSHUP_THRESHOLDS.DOWN_ANGLE - 10, PUSHUP_THRESHOLDS.DOWN_ANGLE + 3,
          PUSHUP_THRESHOLDS.UP_ANGLE - 3, PUSHUP_THRESHOLDS.UP_ANGLE + 10}

(* frames with every joint seen, and one with the first joint unsure *)
DebounceFrames(k) ==
    {[left |-> NoSideData,
      right |-> [level |-> 90, low |-> 0, angle |-> a, body_angle |-> 180]] :
         a \in DebounceAngles(k)}
      \cup {[left |-> NoSideData,
             right |-> [level |-> 90, low |-> 1,
                        angle |-> CURL_THRESHOLDS.DOWN_ANGLE + 10,
                        body_angle |-> 180]]}

(* RepetitionCounter(up, down, inverted=...) with the analyzer's thresholds *)
ReferenceConstruction(k) ==
    IF k = "squat" THEN SquatConstruction
    ELSE IF k = "curl"
    THEN [up |-> CURL_THRESHOLDS.UP_ANGLE, down |-> CURL_THRESHOLDS.DOWN_ANGLE,
          start_stage |-> "start", inv |-> TRUE, prefix |-> ""]
    ELSE [up |-> PUSHUP_THRESHOLDS.UP_ANGLE, down |-> PUSHUP_THRESHOLDS.DOWN_ANGLE,
          start_stage |-> "start", inv |-> FALSE, prefix |-> ""]

(* a RepetitionCounter as __init__ and reset() leave it *)
FreshCounter == [phase |-> START, reps |-> 0, history |-> <<>>]

(* process() called once per angle of a sequence, in order *)
RECURSIVE CounterRun(_, _)
CounterRun(s, as) ==
    IF as = <<>> THEN s ELSE CounterRun(ProcessSeq(s, Head(as)), Tail(as))

(* the fused angles of the valid frames since construction or reset *)
HistoryAngles == [i \in 1..Len(an_history) |-> an_history[i].angle]

InitDebounce ==
    /\ \E k \in RepKinds :
          /\ AnalyzerFields(k, DebounceSide)
          /\ Construct(ReferenceConstruction(k), FSM_STABILITY_FRAMES)
    /\ IdleDriver
    /\ IdleThreads
    /\ IdleFilter
    /\ IdleMore

NextDebounce ==
    \/ \E f \in DebounceFrames(kind) : SquatProcessFrame(f)
    \/ \E f \in DebounceFrames(kind) : CurlProcessFrame(f)
    \/ \E f \in DebounceFrames(kind) : PushUpProcessFrame(f)
    \/ kind \in RepKinds /\ AnalyzerReset

SpecDebounce == InitDebounce /\ [][NextDebounce]_vars

(* the stage names of the two analyzers that keep their own stage *)
OwnDownStage(k) == IF k = "curl" THEN "down" ELSE "pushup_down"
OwnUpStage(k) == IF k = "curl" THEN "up" ELSE "pushup_up"

(* x lies past the down (up) threshold of analyzer k, or within tol of it *)
PastDown(k, x, tol) ==
    IF k = "curl" THEN x > down_threshold - tol ELSE x < down_threshold + tol
PastUp(k, x, tol) ==
    IF k = "curl" THEN x < up_threshold + tol ELSE x > up_threshold - tol

(* the angle a is past the threshold and the two entries at the end of h    *)
(* are within the tolerance of it                                           *)
QualifiesDown(k, a, h) ==
    /\ PastDown(k, a, 0)
    /\ Len(h) >= 2
    /\ PastDown(k, h[Len(h) - 1].angle, 5) /\ PastDown(k, h[Len(h)].angle, 5)
QualifiesUp(k, a, h) ==
    /\ PastUp(k, a, 0)
    /\ Len(h) >= 2
    /\ PastUp(k, h[Len(h) - 1].angle, 5) /\ PastUp(k, h[Len(h)].angle, 5)

C32_RepsEqualCounter ==
    kind \in RepKinds =>
        self_reps = CounterRun(FreshCounter, HistoryAngles).reps

(* what holds: the squat, which owns a RepetitionCounter, reports its reps; *)
(* the curl and the push-up never count more than the counter would         *)
C32_SquatRepsEqualCounter ==
    /\ kind = "squat" => self_reps = CounterRun(FreshCounter, HistoryAngles).reps
    /\ kind \in {"curl", "pushup"} =>
          self_reps <= CounterRun(FreshCounter, HistoryAngles).reps

(* a curl, and a push-up, that counted fewer reps than the counter *)
C32_CurlCountsFewer ==
    kind = "curl" /\ self_reps < CounterRun(FreshCounter, HistoryAngles).reps
C32_PushUpCountsFewer ==
    kind = "pushup" /\ self_reps < CounterRun(FreshCounter, HistoryAngles).reps

----------------------------------------------------------------------------
(* Construction of an analyzer from a configuration dict (SpecBuild).       *)
(* A configuration is a function from the keys it holds to their values.    *)

(* dict.get(key, default) *)
Get(cfg, key, default) == IF key \in DOMAIN cfg THEN cfg[key] ELSE default

(* {**f, **g} for dicts with disjoint keys *)
Merge(f, g) ==
    [x \in DOMAIN f \cup DOMAIN g |-> IF x \in DOMAIN f THEN f[x] ELSE g[x]]

(* the configurations tried: each key absent or given a value that is not   *)
(* its default                                                              *)
SideParts(k) == {NoConfig} \cup {[side |-> sd] : sd \in SideChoices(k)}
UpParts == {NoConfig} \cup {[up_angle |-> v] : v \in {150, 170}}
DownParts == {NoConfig} \cup {[down_angle |-> v] : v \in {80, 100}}
FormParts == {NoConfig, [form_angle_min |-> 150]}
DurationParts ==
    {NoConfig} \cup {[stability_duration |-> v] : v \in {0, TicksPerSecond}}
Configs(k) ==
    IF k = "plank"
    THEN {Merge(a, b) : a \in SideParts(k), b \in DurationParts}
    ELSE IF k = "pushup"
    THEN {Merge(Merge(a, b), Merge(c, d)) :
             a \in SideParts(k), b \in UpParts, c \in DownParts, d \in FormParts}
    ELSE {Merge(a, Merge(b, c)) : a \in SideParts(k), b \in UpParts, c \in DownParts}

(* the default thresholds of the settings, per class *)
DefaultThresholds(k) ==
    IF k = "squat" THEN SQUAT_THRESHOLDS
    ELSE IF k = "curl" THEN CURL_THRESHOLDS
    ELSE PUSHUP_THRESHOLDS

(* PushUp.__init__ lines 12-15: the keys it insists on *)
PushUpRequiredKeys == {"up_angle", "down_angle", "form_angle_min"}

(* what the constructor of class k makes of cfg: whether it returns, and    *)
(* the side and thresholds the object is left with                          *)
Constructed(k, cfg) ==
    IF k = "pushup"
    THEN IF PushUpRequiredKeys \subseteq DOMAIN cfg
         THEN [ok |-> TRUE, side |-> Get(cfg, "side", "left"),
               up |-> cfg["up_angle"], down |-> cfg["down_angle"],
               form |-> cfg["form_angle_min"], duration |-> 0]
         ELSE [ok |-> FALSE, side |-> "left", up |-> 0, down |-> 0, form |-> 0,
               duration |-> 0]
    ELSE IF k = "plank"
    THEN [ok |-> TRUE, side |-> Get(cfg, "side", "left"), up |-> 0, down |-> 0,
          form |-> 0,
          duration |-> Get(cfg, "stability_duration",
                           STABILITY_DURATION * TicksPerSecond)]
    ELSE [ok |-> TRUE, side |-> Get(cfg, "side", "right"),
          up |-> Get(cfg, "up_angle", DefaultThresholds(k).UP_ANGLE),
          down |-> Get(cfg, "down_angle", DefaultThresholds(k).DOWN_ANGLE),
          form |-> 0, duration |-> 0]

(* Squat(cfg), BicepCurl(cfg), PushUp(cfg), Plank(cfg) *)
Build(k, cfg) ==
    /\ built = NotBuilt
    /\ config' = cfg
    /\ \E b \in {Constructed(k, cfg)} :
          IF ~b.ok
          THEN /\ built' = [class |-> k, outcome |-> "ValueError"]
               /\ UNCHANGED <<kind, side, form_threshold_min, smoothers, stage,
                              up_threshold, down_threshold, phase,
                              stability_duration, rules, added>>
          ELSE /\ built' = [class |-> k, outcome |-> "ok"]
               /\ kind' = k
               /\ side' = b.side
               /\ form_threshold_min' = b.form
               /\ smoothers' = [j \in SmootherJoints(k) |-> FALSE]
               /\ stage' = InitialStage(k)
               /\ up_threshold' = b.up
               /\ down_threshold' = b.down
               /\ phase' = IF k = "squat" THEN ParsePhase(SquatConstruction.start_stage)
                           ELSE START
               /\ stability_duration' = b.duration
               /\ rules' = IF k = "plank" THEN <<PlankHipsRule>> ELSE <<>>
               /\ added' = rules'
    /\ UNCHANGED <<self_reps, an_history, frames, anCall, fbCall>>
    /\ UNCHANGED <<state_prefix, inverted, stability_frames, reps, history, rcCall>>
    /\ UNCHANGED <<hphase, elapsed_seconds, hold_start, active_start, elapsed_raw,
                   countdown_remaining, hcCall>>
    /\ UNCHANGED <<drv, thrVars, filtVars, moreVars>>

InitBuild ==
    /\ IdleCounter
    /\ IdleDriver
    /\ IdleThreads
    /\ IdleHold
    /\ IdleExt

NextBuild ==
    \/ \E cfg \in Configs("squat") : Build("squat", cfg)
    \/ \E cfg \in Configs("curl") : Build("curl", cfg)
    \/ \E cfg \in Configs("pushup") : Build("pushup", cfg)
    \/ \E cfg \in Configs("plank") : Build("plank", cfg)

SpecBuild == InitBuild /\ [][NextBuild]_vars

(* the constructed object holds the documented default for every key the    *)
(* configuration omits                                                      *)
OmittedKeysDefaulted ==
    /\ built.outcome = "ok"
    /\ kind = built.class
    /\ ("side" \in DOMAIN config => side = config["side"])
    /\ built.class \in RepKinds =>
          /\ ("up_angle" \notin DOMAIN config =>
                 up_threshold = DefaultThresholds(built.class).UP_ANGLE)
          /\ ("down_angle" \notin DOMAIN config =>
                 down_threshold = DefaultThresholds(built.class).DOWN_ANGLE)
    /\ built.class = "pushup" =>
          ("form_angle_min" \notin DOMAIN config =>
                 form_threshold_min = PUSHUP_THRESHOLDS.FORM_ANGLE_MIN)
    /\ built.class = "plank" =>
          ("stability_duration" \notin DOMAIN config =>
                 stability_duration = STABILITY_DURATION * TicksPerSecond)

(* C21: every analyzer (squat, curl, push-up, plank) can be constructed     *)
(* from a configuration that gives only the side: each omitted key          *)
(* (up_angle, down_angle, push-up form threshold, plank stability_duration) *)
(* takes its documented default, and construction does not fail.            *)
C21_SideOnlyConstructs ==
    (built.class \in Kinds /\ DOMAIN config \subseteq {"side"}) => OmittedKeysDefaulted

(* The same for squat, curl and plank, and for every configuration tried.   *)
C21_SquatCurlPlank ==
    (built.class \in {"squat", "curl", "plank"}) => OmittedKeysDefaulted

(* PushUp({"side": "left"}) raised ValueError. *)
C21_PushUpRaises ==
    /\ built = [class |-> "pushup", outcome |-> "ValueError"]
    /\ config = [side |-> "left"]
    /\ kind = "none"

----------------------------------------------------------------------------
(* GestureDetector (src/src/core/gesture_detector.py), SpecGesture.          *)
(* A gesture is its name; "None" stands for Python's None.  Confidences are  *)
(* in hundredths, y differences in pixels.                                   *)

GESTURE_STABILITY == 10
GESTURE_CONFIDENCE == 60
GESTURE_Y_DIFF_THRESHOLD == 50

(* stability_frames: one, two, three and the default of the settings *)
GStabilityChoices == {1, 2, 3, GESTURE_STABILITY}

(* the wrist and shoulder of one arm: raised and confident, wrist exactly   *)
(* 50 pixels above the shoulder, wrist or shoulder at exactly the           *)
(* confidence threshold                                                     *)
Arms ==
    {[wrist_conf |-> 90, shoulder_conf |-> 90, y_diff |-> 60],
     [wrist_conf |-> 90, shoulder_conf |-> 90, y_diff |-> GESTURE_Y_DIFF_THRESHOLD],
     [wrist_conf |-> GESTURE_CONFIDENCE, shoulder_conf |-> 90, y_diff |-> 60],
     [wrist_conf |-> 90, shoulder_conf |-> GESTURE_CONFIDENCE, y_diff |-> 60]}

(* the keypoints given to detect(): None (or fewer than 17 rows), or both   *)
(* arms                                                                     *)
Keypoints ==
    {NoKeypoints} \cup {[given |-> TRUE, right |-> r, left |-> l] : r \in Arms, l \in Arms}

(* lines 81-86 and 92-96: one arm is raised *)
ArmRaised(a) ==
    /\ a.wrist_conf > GESTURE_CONFIDENCE
    /\ a.shoulder_conf > GESTURE_CONFIDENCE
    /\ a.y_diff > GESTURE_Y_DIFF_THRESHOLD

(* GestureDetector._detect_raised_arm *)
DetectRaisedArm(kp) ==
    IF ArmRaised(kp.right) \/ ArmRaised(kp.left) THEN "THUMBS_UP" ELSE "None"

(* deque(maxlen=n).append *)
AppendMax(h, g, n) ==
    IF n = 0 THEN <<>>
    ELSE IF Len(h) < n THEN Append(h, g) ELSE Append(Tail(h), g)

(* the number of entries of h that are gesture g *)
CountOf(h, g) == Cardinality({i \in 1..Len(h) : h[i] = g})

(* Variant of GetStableGesture: every entry of the window must be the       *)
(* gesture.                                                                 *)
GetStableGestureUnanimous(h, n) ==
    IF Len(h) < n THEN "None"
    ELSE IF CountOf(h, "THUMBS_UP") = Len(h) /\ Len(h) > 0 THEN "THUMBS_UP"
    ELSE "None"

(* GestureDetector._get_stable_gesture: count < n * 0.5 is 2 * count < n *)
GetStableGesture(h, n) ==
    IF Len(h) < n THEN "None"
    ELSE LET c == CountOf(h, "THUMBS_UP")
         IN  IF 2 * c < n THEN "None"
             ELSE IF c > 0 /\ 2 * c >= n THEN "THUMBS_UP"
             ELSE "None"

(* GestureDetector.__init__ *)
GestureConstruct(n) ==
    /\ gstability_frames = n
    /\ gesture_history = <<>>
    /\ gdCall = NoGdCall

(* GestureDetector.detect(keypoints) *)
Detect(kp) ==
    /\ IF ~kp.given
       THEN /\ gesture_history' = AppendMax(gesture_history, "None", gstability_frames)
            /\ gdCall' = [op |-> "detect", keypoints |-> kp, detected |-> "None",
                          ret |-> "None"]
       ELSE \E g \in {DetectRaisedArm(kp)} :
            /\ gesture_history' = AppendMax(gesture_history, g, gstability_frames)
            /\ gdCall' = [op |-> "detect", keypoints |-> kp, detected |-> g,
                          ret |-> GetStableGesture(gesture_history', gstability_frames)]
    /\ UNCHANGED gstability_frames
    /\ UNCHANGED <<cfgVars, rcVars, rcCall, drv, thrVars, holdVars, fbVars, filtVars,
                   anVars, smVars, twin>>

(* GestureDetector.reset() *)
GestureReset ==
    /\ gesture_history' = <<>>
    /\ gdCall' = [op |-> "reset", keypoints |-> NoKeypoints, detected |-> "None",
                  ret |-> "None"]
    /\ UNCHANGED gstability_frames
    /\ UNCHANGED <<cfgVars, rcVars, rcCall, drv, thrVars, holdVars, fbVars, filtVars,
                   anVars, smVars, twin>>

InitGesture ==
    /\ \E n \in GStabilityChoices : GestureConstruct(n)
    /\ IdleCounter
    /\ IdleDriver
    /\ IdleThreads
    /\ IdleHold
    /\ IdleFeedback
    /\ IdleFilter
    /\ IdleAnalyzer
    /\ IdleSession
    /\ IdleTwin

NextGesture ==
    \/ \E kp \in Keypoints : Detect(kp)
    \/ GestureReset

SpecGesture == InitGesture /\ [][NextGesture]_vars

(* C28: detect() returns a gesture only when that gesture was detected on   *)
(* each of the last stability_frames consecutive frames; one frame without  *)
(* the gesture inside that window prevents the gesture from being returned. *)
C28_ReturnedOnlyWhenUnanimous ==
    [][ (gdCall'.op = "detect" /\ gdCall'.ret # "None") =>
          /\ Len(gesture_history') >= gstability_frames
          /\ \A i \in 1..Len(gesture_history') :
                i > Len(gesture_history') - gstability_frames =>
                    gesture_history'[i] = gdCall'.ret ]_vars

(* What does hold: a gesture is returned only on a full window in which at  *)
(* least half of the frames showed it.                                      *)
C28_ReturnedOnMajority ==
    [][ gdCall'.op = "detect" =>
          /\ gdCall'.ret \in {"None", "THUMBS_UP"}
          /\ (gdCall'.ret = "THUMBS_UP" <=>
                /\ gdCall'.keypoints.given
                /\ Len(gesture_history') = gstability_frames
                /\ 2 * CountOf(gesture_history', "THUMBS_UP") >= gstability_frames) ]_vars

(* With the default of 10 frames, THUMBS_UP was returned on a frame that    *)
(* showed no gesture, from a window holding only five frames with it.       *)
C28_ReturnedOnHalf ==
    /\ gstability_frames = GESTURE_STABILITY
    /\ gdCall.op = "detect"
    /\ gdCall.detected = "None"
    /\ gdCall.ret = "THUMBS_UP"
    /\ 2 * CountOf(gesture_history, "THUMBS_UP") = GESTURE_STABILITY

-----------------------------------------------------------------------------
(* SessionManager (src/core/session_manager.py): sets, rest and the single  *)
(* save of a workout.  It owns one analyzer, exercise_logic.                *)

MaxSetFrames == 6       \* frames analysed within one set
TargetSetsChoices == {1, 2}
TargetRepsChoices == {1, 2}

WorkoutStates == {"EXERCISE", "REST", "FINISHED"}
UserActions == {"CONTINUE", "QUIT"}

(* the analyzers a manager is built on *)
SessionExercises ==
    {<<"squat", "right">>, <<"curl", "right">>, <<"pushup", "left">>,
     <<"plank", "left">>}

(* the frames a manager is fed when a person is seen: every joint sure, at  *)
(* each pair of angles, or the last required joint unsure                   *)
SessionSideData(k) ==
    {[level |-> 90, low |-> 0, angle |-> ap[1], body_angle |-> ap[2]] :
        ap \in AnglePairs(k)}
       \cup {[level |-> 90, low |-> JointCount(k), angle |-> 0, body_angle |-> 0]}
SessionFrames(k, sd) ==
    IF sd = "left"
    THEN {[left |-> a, right |-> NoSideData] : a \in SessionSideData(k)}
    ELSE {[left |-> NoSideData, right |-> b] : b \in SessionSideData(k)}

(* a plank set is cut after half as many frames *)
SessionFrameBound ==
    IF kind = "plank" THEN MaxSetFrames \div 2 ELSE MaxSetFrames

(* self.exercise_logic.process_frame(keypoints, timestamp): the analyzer    *)
(* state and the AnalysisResult the call leaves                             *)
ProcessFrame(f, t) ==
    LET unseen == [reps |-> self_reps, stage |-> stage, history |-> an_history,
                   result |-> NotVisible(self_reps), counter |-> CounterState,
                   rcCall |-> rcCall, hold |-> HoldState,
                   elapsed_seconds |-> elapsed_seconds, hcCall |-> hcCall]
    IN
    IF kind = "squat"
    THEN LET V == ValidSides(kind, side, f)
         IN  IF Cardinality(V) < Cardinality(SidesToProcess(side))
             THEN unseen
             ELSE LET angle == MeanAngle(V, f)
                      c == ProcessSeq(CounterState, angle)
                      st == SquatStage(Prefixed(c.phase))
                      fb == Check(rules, {})
                  IN  [unseen EXCEPT
                         !.reps = c.reps, !.stage = st,
                         !.history = HistoryAppend(an_history,
                             [angle |-> angle, stage |-> st, reps |-> c.reps,
                              is_valid |-> fb[2]]),
                         !.result = [reps |-> c.reps, stage |-> st,
                                     correction |-> IF fb[1] = "feedback_perfect"
                                                    THEN "squat_perfect_form"
                                                    ELSE fb[1],
                                     angle |-> angle, is_valid |-> fb[2]],
                         !.counter = c,
                         !.rcCall = [op |-> "process", angle |-> angle,
                                     ret |-> <<c.reps, Prefixed(c.phase)>>,
                                     was |-> Was]]
    ELSE IF kind = "curl"
    THEN LET V == ValidSides(kind, side, f)
         IN  IF Cardinality(V) < Cardinality(SidesToProcess(side))
             THEN unseen
             ELSE LET angle == MeanAngle(V, f)
                      r == CurlStep(stage, self_reps, an_history, angle)
                  IN  [unseen EXCEPT
                         !.reps = r.reps, !.stage = r.stage,
                         !.history = HistoryAppend(an_history,
                             [angle |-> angle, stage |-> r.stage, reps |-> r.reps,
                              is_valid |-> r.is_valid]),
                         !.result = [reps |-> r.reps, stage |-> r.stage,
                                     correction |-> r.correction,
                                     angle |-> angle, is_valid |-> r.is_valid]]
    ELSE IF kind = "pushup"
    THEN LET u == Fusion(side, f)
         IN  IF ~u.ok
             THEN unseen
             ELSE LET r == PushUpStep(stage, self_reps, an_history, u.angle,
                                      u.body_angle)
                  IN  [unseen EXCEPT
                         !.reps = r.reps, !.stage = r.stage,
                         !.history = HistoryAppend(an_history,
                             [angle |-> u.angle, body_angle |-> u.body_angle,
                              stage |-> r.stage, reps |-> r.reps,
                              is_valid |-> r.is_valid]),
                         !.result = [reps |-> r.reps, stage |-> r.stage,
                                     correction |-> r.correction,
                                     angle |-> u.angle, is_valid |-> r.is_valid]]
    ELSE LET d == f[side]
             body_seen == GatePasses(d, BodyTriple)
             elbow_seen == GatePasses(d, ElbowTriple)
             is_valid_pose == body_seen /\ elbow_seen
             is_form_correct ==
                 /\ is_valid_pose
                 /\ d.body_angle >= PLANK_THRESHOLDS.SHOULDER_HIP_ANKLE_MIN
                 /\ PLANK_THRESHOLDS.ELBOW_ANGLE_MIN <= d.angle
                 /\ d.angle <= PLANK_THRESHOLDS.ELBOW_ANGLE_MAX
             h == HoldTransition(HoldState, is_form_correct, t)
             total_seconds == IntSeconds(h.elapsed_raw)
         IN  [unseen EXCEPT
                !.reps = total_seconds, !.stage = h.phase,
                !.result = [reps |-> total_seconds, stage |-> h.phase,
                            correction |-> ResolveFeedback(h.phase,
                                h.countdown_remaining, is_valid_pose,
                                is_form_correct, d.body_angle),
                            angle |-> IF body_seen /\ d.body_angle # 0
                                      THEN d.body_angle ELSE 0,
                            is_valid |-> is_form_correct],
                !.hold = h,
                !.elapsed_seconds = total_seconds,
                !.hcCall = [op |-> "process", is_valid |-> is_form_correct,
                            timestamp |-> t, ret |-> <<total_seconds, h.phase>>,
                            was |-> [phase |-> hphase, hold_start |-> hold_start]]]

(* self.exercise_logic.reset() on the analyzer state p that process_frame   *)
(* left                                                                     *)
ResetLogic(p) ==
    LET r == ExerciseReset(smoothers)
    IN  [p EXCEPT
           !.reps = r.reps,
           !.stage = IF kind = "plank" THEN WAITING ELSE r.stage,
           !.history = r.history,
           !.counter = IF kind = "squat"
                       THEN [phase |-> START, reps |-> 0, history |-> <<>>]
                       ELSE @,
           !.rcCall = IF kind = "squat"
                      THEN [op |-> "reset", angle |-> NoAngle, ret |-> <<>>,
                            was |-> [phase |-> p.counter.phase,
                                     reps |-> p.counter.reps,
                                     len |-> Len(p.counter.history)]]
                      ELSE @,
           !.hold = IF kind = "plank"
                    THEN [phase |-> WAITING, hold_start |-> NoTime,
                          active_start |-> NoTime, elapsed_raw |-> 0,
                          countdown_remaining |-> 0]
                    ELSE @,
           !.elapsed_seconds = 0,
           !.hcCall = IF kind = "plank"
                      THEN [op |-> "reset", is_valid |-> FALSE,
                            timestamp |-> NoTime, ret |-> <<>>,
                            was |-> [phase |-> p.hold.phase,
                                     hold_start |-> p.hold.hold_start]]
                      ELSE @]

(* the manager's own state, and the Session entity it keeps *)
SmState == [current_set |-> current_set, workout_state |-> workout_state,
            exercises |-> exercises, end_time |-> end_time, saves |-> saves]
SmWas == [workout_state |-> workout_state, current_set |-> current_set,
          sets |-> Len(exercises), saves |-> saves]

(* Variant of EndSessionOn: the session is saved on every call.            *)
EndSessionAlwaysSaves(s) ==
    [s EXCEPT !.end_time = Some("now"), !.saves = @ + 1]

(* SessionManager.end_session: Session.end_session() stamps end_time, then  *)
(* db_manager.save_session is called; nothing once end_time is set          *)
EndSessionOn(s) ==
    IF s.end_time = None
    THEN [s EXCEPT !.end_time = Some("now"), !.saves = @ + 1]
    ELSE s

(* Variant of CompleteSet: every completed set is followed by a rest.       *)
CompleteSetAlwaysRests(s, reached) ==
    [s EXCEPT !.exercises = Append(@, [set_index |-> s.current_set,
                                       reps |-> reached]),
              !.workout_state = "REST"]

(* Variant of CompleteSet: the record is written after the analyzer reset.  *)
CompleteSetRecordsAfterReset(s, reached) ==
    LET s1 == [s EXCEPT !.exercises = Append(@, [set_index |-> s.current_set,
                                                 reps |-> 0])]
    IN  IF s.current_set >= target_sets
        THEN EndSessionOn([s1 EXCEPT !.workout_state = "FINISHED"])
        ELSE [s1 EXCEPT !.workout_state = "REST"]

(* SessionManager._complete_set up to the analyzer reset: reached is        *)
(* self.exercise_logic.reps as process_frame left it                        *)
CompleteSet(s, reached) ==
    LET s1 == [s EXCEPT !.exercises = Append(@, [set_index |-> s.current_set,
                                                 reps |-> reached])]
    IN  IF s.current_set >= target_sets
        THEN EndSessionOn([s1 EXCEPT !.workout_state = "FINISHED"])
        ELSE [s1 EXCEPT !.workout_state = "REST"]

(* Variant of HandleInput: CONTINUE in REST starts a set without counting   *)
(* it.                                                                      *)
HandleInputKeepsSet(s, action) ==
    IF action = "CONTINUE" /\ s.workout_state = "REST"
    THEN [s EXCEPT !.workout_state = "EXERCISE"]
    ELSE s

(* Variant of HandleInput: CONTINUE starts a set from any state.            *)
HandleInputAnyState(s, action) ==
    IF action = "CONTINUE"
    THEN [s EXCEPT !.current_set = @ + 1, !.workout_state = "EXERCISE"]
    ELSE s

(* SessionManager.handle_user_input *)
HandleInput(s, action) ==
    IF action = "CONTINUE" /\ s.workout_state = "REST"
    THEN [s EXCEPT !.current_set = @ + 1, !.workout_state = "EXERCISE"]
    ELSE s

(* the UIState update() returns *)
UIState(rp, st, feedback, s) ==
    [reps |-> rp,
     current_set |-> IF s.current_set <= target_sets THEN s.current_set
                     ELSE target_sets,
     state |-> st, feedback_key |-> feedback, workout_state |-> s.workout_state]

(* the manager's state takes the values of s *)
SmAdopt(s) ==
    /\ current_set' = s.current_set
    /\ workout_state' = s.workout_state
    /\ exercises' = s.exercises
    /\ end_time' = s.end_time
    /\ saves' = s.saves

(* the analyzer takes the state p *)
LogicAdopt(p) ==
    /\ self_reps' = p.reps
    /\ stage' = p.stage
    /\ an_history' = p.history
    /\ phase' = p.counter.phase
    /\ reps' = p.counter.reps
    /\ history' = p.counter.history
    /\ rcCall' = p.rcCall
    /\ hphase' = p.hold.phase
    /\ hold_start' = p.hold.hold_start
    /\ active_start' = p.hold.active_start
    /\ elapsed_raw' = p.hold.elapsed_raw
    /\ countdown_remaining' = p.hold.countdown_remaining
    /\ elapsed_seconds' = p.elapsed_seconds
    /\ hcCall' = p.hcCall

(* Variant of Analyses: the analyzer is called whenever a person is seen.   *)
AnalysesWheneverPerson(ws, has_people) == has_people

(* line 64: the condition under which update() calls the analyzer           *)
Analyses(ws, has_people) == ws = "EXERCISE" /\ has_people

(* SessionManager.update(pose_data, timestamp): has_people says whether the *)
(* pose data holds a person, f is that person's keypoints                   *)
SmUpdate(has_people, f, t) ==
    /\ workout_state \in WorkoutStates
    /\ IF ~Analyses(workout_state, has_people)
       THEN /\ smCall' = [op |-> "update", action |-> "", has_people |-> has_people,
                          analysed |-> FALSE,
                          ret |-> UIState(self_reps, stage, "", SmState),
                          was |-> SmWas]
            /\ UNCHANGED <<rcVars, rcCall, holdVars, self_reps, stage, an_history,
                           smoothers, frames, anCall, current_set, workout_state,
                           exercises, end_time, saves>>
       ELSE /\ frames < SessionFrameBound
            /\ \E analysis \in {ProcessFrame(f, t)} :
               \E done \in {analysis.result.reps >= target_reps} :
               \E s \in {IF done THEN CompleteSet(SmState, analysis.reps)
                         ELSE SmState} :
                  /\ frames' = IF done THEN 0 ELSE frames + 1
                  /\ SmAdopt(s)
                  /\ LogicAdopt(IF done THEN ResetLogic(analysis) ELSE analysis)
                  /\ smoothers' = IF done THEN ExerciseReset(smoothers).smoothers
                                  ELSE SmoothLandmarks(smoothers)
                  /\ anCall' =
                        IF done
                        THEN [op |-> "reset", frame |-> NoFrame,
                              timestamp |-> NoTime, result |-> NoResult,
                              was |-> [reps |-> analysis.reps,
                                       stage |-> analysis.stage,
                                       len |-> Len(analysis.history),
                                       primed |-> TRUE]]
                        ELSE [op |-> "process_frame", frame |-> f,
                              timestamp |-> IF kind = "plank" THEN t ELSE NoTime,
                              result |-> analysis.result, was |-> AnWas]
                  /\ smCall' = [op |-> "update", action |-> "", has_people |-> has_people,
                                analysed |-> TRUE,
                                ret |-> UIState(analysis.result.reps,
                                                analysis.result.stage,
                                                analysis.result.correction, s),
                                was |-> SmWas]
            /\ UNCHANGED stability_duration
    /\ UNCHANGED <<cfgVars, anCfgVars, drv, thrVars, fbVars, filtVars, gdVars, twin,
                   target_sets, target_reps>>

(* SessionManager.handle_user_input(action) *)
HandleUserInput(action) ==
    /\ workout_state \in WorkoutStates
    /\ SmAdopt(HandleInput(SmState, action))
    /\ smCall' = [op |-> "handle_user_input", action |-> action,
                  has_people |-> FALSE,
                  analysed |-> FALSE, ret |-> NoUIState, was |-> SmWas]
    /\ UNCHANGED <<cfgVars, rcVars, rcCall, drv, thrVars, holdVars, fbVars, filtVars,
                   anVars, gdVars, twin, target_sets, target_reps>>

(* SessionManager.end_session() *)
EndSession ==
    /\ workout_state \in WorkoutStates
    /\ SmAdopt(EndSessionOn(SmState))
    /\ smCall' = [op |-> "end_session", action |-> "", has_people |-> FALSE,
                  analysed |-> FALSE, ret |-> NoUIState, was |-> SmWas]
    /\ UNCHANGED <<cfgVars, rcVars, rcCall, drv, thrVars, holdVars, fbVars, filtVars,
                   anVars, gdVars, twin, target_sets, target_reps>>

(* SessionManager.save_session(): calls end_session() *)
SaveSession ==
    /\ workout_state \in WorkoutStates
    /\ SmAdopt(EndSessionOn(SmState))
    /\ smCall' = [op |-> "save_session", action |-> "", has_people |-> FALSE,
                  analysed |-> FALSE, ret |-> NoUIState, was |-> SmWas]
    /\ UNCHANGED <<cfgVars, rcVars, rcCall, drv, thrVars, holdVars, fbVars, filtVars,
                   anVars, gdVars, twin, target_sets, target_reps>>

(* SessionManager.__init__ *)
SessionConstruct(ts, tr) ==
    /\ target_sets = ts
    /\ target_reps = tr
    /\ current_set = 1
    /\ workout_state = "EXERCISE"
    /\ exercises = <<>>
    /\ end_time = None
    /\ saves = 0
    /\ smCall = NoSmCall

InitSession ==
    /\ \E e \in SessionExercises : AnalyzerConstruct(e[1], e[2])
    /\ \E ts \in TargetSetsChoices, tr \in TargetRepsChoices : SessionConstruct(ts, tr)
    /\ IdleDriver
    /\ IdleThreads
    /\ IdleFilter
    /\ IdleGesture
    /\ IdleTwin

NextSession ==
    \/ \E f \in SessionFrames(kind, side),
          t \in (IF kind = "plank" THEN PlankTimes ELSE {0}) : SmUpdate(TRUE, f, t)
    \/ SmUpdate(FALSE, NoFrame, 0)
    \/ \E action \in UserActions : HandleUserInput(action)
    \/ EndSession
    \/ SaveSession

SpecSession == InitSession /\ [][NextSession]_vars

(* the update() just made analysed a frame whose result reports the target  *)
SetCompleted ==
    /\ smCall'.op = "update"
    /\ smCall'.analysed
    /\ smCall'.ret.reps >= target_reps

(* C22: in EXERCISE, an update() whose processed frame reports              *)
(* reps >= target_reps completes the set within that update: the state      *)
(* becomes REST if current_set < target_sets and FINISHED otherwise; no      *)
(* other step leaves EXERCISE.                                              *)
C22_SetCompletedInUpdate ==
    [][ /\ (workout_state = "EXERCISE" /\ SetCompleted) =>
              workout_state' = IF current_set < target_sets THEN "REST"
                               ELSE "FINISHED"
        /\ (workout_state = "EXERCISE" /\ workout_state' # "EXERCISE") =>
              SetCompleted ]_vars

(* A two-set session whose first set ended in REST and whose second set     *)
(* ended in FINISHED, both inside update().                                 *)
C22_Witness ==
    /\ target_sets = 2
    /\ workout_state = "FINISHED"
    /\ Len(exercises) = 2
    /\ smCall.op = "update"
    /\ smCall.analysed
    /\ smCall.was.workout_state = "EXERCISE"
    /\ smCall.was.current_set = 2

(* C23: handle_user_input('CONTINUE') in REST adds exactly 1 to current_set *)
(* and moves to EXERCISE; in EXERCISE or FINISHED it changes neither        *)
(* current_set nor the workout state, and no step at all leaves FINISHED.   *)
C23_ContinueOnlyFromRest ==
    [][ /\ (smCall'.op = "handle_user_input" /\ smCall'.action = "CONTINUE") =>
              IF workout_state = "REST"
              THEN current_set' = current_set + 1 /\ workout_state' = "EXERCISE"
              ELSE current_set' = current_set /\ workout_state' = workout_state
        /\ workout_state = "FINISHED" => workout_state' = "FINISHED" ]_vars

(* CONTINUE was given in REST after set 1, and set 2 began.                  *)
C23_Witness ==
    /\ smCall.op = "handle_user_input"
    /\ smCall.action = "CONTINUE"
    /\ smCall.was.workout_state = "REST"
    /\ smCall.was.current_set = 1
    /\ current_set = 2
    /\ workout_state = "EXERCISE"

(* C24: over the life of a SessionManager the session is handed to          *)
(* db_manager.save_session at most once, whatever set completions,          *)
(* end_session() and save_session() calls occur; once the final set has     *)
(* completed it has been saved exactly once, and later end_session() or     *)
(* save_session() calls save nothing more.                                  *)
C24_SavedAtMostOnce ==
    [][ /\ saves' <= 1
        /\ workout_state' = "FINISHED" => saves' = 1
        /\ saves = 1 => saves' = 1
        /\ (saves' = 1) <=> (end_time' # None) ]_vars

(* save_session() was called after the final set had completed and saved    *)
(* the session; the count of saves is still 1.                              *)
C24_Witness ==
    /\ smCall.op = "save_session"
    /\ smCall.was.workout_state = "FINISHED"
    /\ smCall.was.sets = target_sets
    /\ smCall.was.saves = 1
    /\ saves = 1

(* C25: on every set completion a record holding the set index and the rep *)
(* count reached (>= target_reps) is appended to the session before the     *)
(* analyzer is reset: after the completing update() the analyzer's reps is  *)
(* 0, its stage and history are the initial ones, and the record holds the  *)
(* reached count.  No other step adds a record.                             *)
C25_RecordThenReset ==
    [][ IF workout_state = "EXERCISE" /\ SetCompleted
        THEN /\ exercises' = Append(exercises,
                                    [set_index |-> current_set,
                                     reps |-> smCall'.ret.reps])
             /\ exercises'[Len(exercises')].reps >= target_reps
             /\ self_reps' = 0
             /\ stage' = InitialStage(kind)
             /\ an_history' = <<>>
             /\ kind = "squat" => reps' = 0
             /\ kind = "plank" => elapsed_seconds' = 0
        ELSE exercises' = exercises ]_vars

(* The second set of a session with target_reps 2 has just completed: both  *)
(* records hold 2 reps and the analyzer is back at 0.                       *)
C25_Witness ==
    /\ target_reps = 2
    /\ smCall.op = "update"
    /\ smCall.analysed
    /\ smCall.was.sets = 1
    /\ Len(exercises) = 2
    /\ exercises[1] = [set_index |-> 1, reps |-> 2]
    /\ exercises[2] = [set_index |-> 2, reps |-> 2]
    /\ self_reps = 0

(* C26: while the session is in REST, update() returns a UIState whose      *)
(* state field is "finished", whatever stage the reset analyzer reports.    *)
C26_RestReportsFinished ==
    (smCall.op = "update" /\ smCall.was.workout_state = "REST") =>
        smCall.ret.state = "finished"

(* What does hold: outside an analysed frame update() returns the stage of  *)
(* the analyzer itself, with the analyzer's reps and no feedback.           *)
C26_UnanalysedReportsLogic ==
    (smCall.op = "update" /\ ~smCall.analysed) =>
        /\ smCall.ret.state = stage
        /\ smCall.ret.reps = self_reps
        /\ smCall.ret.feedback_key = ""
        /\ smCall.ret.workout_state = workout_state

(* update() was called in REST and returned the initial stage of the reset  *)
(* analyzer.                                                                *)
C26_RestReportsStart ==
    /\ smCall.op = "update"
    /\ smCall.was.workout_state = "REST"
    /\ workout_state = "REST"
    /\ smCall.ret.state = InitialStage(kind)
    /\ smCall.ret.state # "finished"

(* C34: update() calls the analyzer only when the state is EXERCISE and a   *)
(* person is detected; an update() in REST or FINISHED, or with no person,  *)
(* leaves workout_state, current_set, the recorded sets and the analyzer    *)
(* (its reps, stage, history, counter, timer and filters) unchanged.        *)
C34_UpdateAnalysesOnlyInExercise ==
    [][ smCall'.op = "update" =>
          IF workout_state = "EXERCISE" /\ smCall'.has_people
          THEN /\ smCall'.analysed
               /\ anCall'.op \in {"process_frame", "reset"}
          ELSE /\ ~smCall'.analysed
               /\ UNCHANGED <<workout_state, current_set, exercises, end_time,
                              saves, self_reps, stage, an_history, smoothers,
                              frames, anCall, rcVars, rcCall, holdVars>> ]_vars

(* update() was called with a person in view while the session was in REST, *)
(* and the analyzer was not called.                                         *)
C34_Witness ==
    /\ smCall.op = "update"
    /\ smCall.has_people
    /\ ~smCall.analysed
    /\ smCall.was.workout_state = "REST"
    /\ workout_state = "REST"
    /\ anCall.op = "reset"

(* C40: for target_sets >= 1, in every reachable state                      *)
(* 1 <= current_set <= target_sets, the number of recorded sets is           *)
(* current_set - 1 in EXERCISE and current_set in REST and FINISHED, and     *)
(* FINISHED is reached only with current_set = target_sets.                 *)
C40_SetCounterInvariant ==
    /\ 1 <= current_set
    /\ current_set <= target_sets
    /\ Len(exercises) = IF workout_state = "EXERCISE" THEN current_set - 1
                        ELSE current_set
    /\ \A i \in 1..Len(exercises) : exercises[i].set_index = i
    /\ workout_state = "FINISHED" => current_set = target_sets

(* A two-set session in EXERCISE on its second set, one set recorded.       *)
C40_Witness ==
    /\ target_sets = 2
    /\ current_set = 2
    /\ workout_state = "EXERCISE"
    /\ Len(exercises) = 1
    /\ smCall.op = "update"
    /\ smCall.analysed

====
